---- MODULE Spec2Model ----
(***************************************************************************)
(* A model of the ironnes emulator core: the generated instruction table,  *)
(* the CPU memory map (Memory), the device bus (Bus), the stack helpers,   *)
(* the addressing-mode resolver and the CPU's step with its handlers.      *)
(***************************************************************************)
EXTENDS Integers, Sequences, FiniteSets, TLC

VARIABLES
    overflow_checks, \* build profile: TRUE = debug (u16 overflow panics), FALSE = release (wraps)
    cycle,           \* Cpu.cycle, the running cycle counter
    legal,           \* rows of 6502ops.csv, in file order
    unofficial,      \* rows of unofficial.csv, in file order
    mem,             \* Memory: the five byte arrays
    bus,             \* Bus: its devices
    regs,            \* Registers: pc, sp, a, x, y, p
    last,            \* the last operation applied and what it returned
    hist,            \* harness bookkeeping: what the stack test pushed and expects
    nops             \* number of operations applied so far

vars == <<overflow_checks, cycle, legal, unofficial, mem, bus, regs, last, hist, nops>>

----------------------------------------------------------------------------
(* Results: Ok(v), Err(kind) and a panic of the Rust runtime.              *)

Ok(v) == [st |-> "ok", v |-> v, e |-> ""]
Err(e) == [st |-> "err", v |-> 0, e |-> e]
Panic == [st |-> "panic", v |-> 0, e |-> "panic"]

IsOk(r) == r.st = "ok"

\* let x = e; F(x): e is evaluated once and F applied to its value
Bind(e, F(_)) == CHOOSE r \in {F(x) : x \in {e}} : TRUE

U8 == 256
U16 == 65536

(* Byte arrays that start zeroed are kept sparse: only non-zero cells are  *)
(* in the domain, so equal arrays are equal values.                        *)
ZeroArr == [i \in {} |-> 0]

ArrGet(arr, i) == IF i \in DOMAIN arr THEN arr[i] ELSE 0

ArrSet(arr, i, v) ==
    [j \in (IF v = 0 THEN DOMAIN arr \ {i} ELSE DOMAIN arr \cup {i}) |->
        IF j = i THEN v ELSE arr[j]]

----------------------------------------------------------------------------
(* memory/mod.rs: the address map                                          *)

MEM_STACK_BEGIN == 256
MEM_STACK_END == 511
MEM_RAM_BEGIN == 0
MEM_RAM_END == 8191
MEM_RAM_SIZE == 2048
MEM_PPU_BEGIN == 8192
MEM_PPU_END == 16383
MEM_PPU_SIZE == 8
MEM_REG_BEGIN == 16384
MEM_REG_END == 16415
MEM_REG_SIZE == 32
MEM_BATT_ROM_BEGIN == 24576
MEM_BATT_ROM_END == 32767
MEM_BATT_ROM_SIZE == 8192
MEM_PROG_ROM_BEGIN == 32768
MEM_PROG_ROM_END == 65535
MEM_PROG_ROM_SIZE == 32768

\* Memory::new
MemoryNew ==
    [ram |-> ZeroArr, ppu_reg |-> ZeroArr, other_reg |-> ZeroArr,
     rom_batt |-> ZeroArr, rom_prog |-> ZeroArr]

\* Memory::translate_addr: the array and the index an address selects
translate_addr(addr) ==
    IF addr >= MEM_RAM_BEGIN /\ addr <= MEM_RAM_END
        THEN [dev |-> "ram", off |-> addr % MEM_RAM_SIZE]
    ELSE IF addr >= MEM_PPU_BEGIN /\ addr <= MEM_PPU_END
        THEN [dev |-> "ppu_reg", off |-> (addr - MEM_PPU_BEGIN) % MEM_PPU_SIZE]
    ELSE IF addr >= MEM_REG_BEGIN /\ addr <= MEM_REG_END
        THEN [dev |-> "other_reg", off |-> addr - MEM_REG_BEGIN]
    ELSE IF addr >= MEM_BATT_ROM_BEGIN /\ addr <= MEM_BATT_ROM_END
        THEN [dev |-> "rom_batt", off |-> addr - MEM_BATT_ROM_BEGIN]
    ELSE IF addr >= MEM_PROG_ROM_BEGIN /\ addr <= MEM_PROG_ROM_END
        THEN [dev |-> "rom_prog", off |-> addr - MEM_PROG_ROM_BEGIN]
    ELSE [dev |-> "ILLEGAL", off |-> 0]

\* Memory::load
MemLoad(m, addr) ==
    LET a == translate_addr(addr)
    IN  IF a.dev = "ILLEGAL" THEN Err("Illegal load")
        ELSE Ok(ArrGet(m[a.dev], a.off))

\* Memory::store: the result and the memory afterwards
MemStore(m, addr, v) ==
    LET a == translate_addr(addr)
    IN  IF a.dev = "ILLEGAL" THEN [r |-> Err("Illegal store"), m |-> m]
        ELSE [r |-> Ok(0), m |-> [m EXCEPT ![a.dev] = ArrSet(@, a.off, v)]]

\* get_high_addr without the same-page wrap
get_high_addr_next(addr) == (addr + 1) % U16

\* Memory::get_high_addr: where the high byte of a 16-bit access lives
get_high_addr(addr) ==
    IF addr >= 0 /\ addr <= MEM_RAM_END /\ addr % 256 = 255
        THEN addr - (addr % 256)
        ELSE (addr + 1) % U16

\* load16 taking the high byte from the next address in every region
MemLoad16_next_address(m, addr) ==
    LET lo == MemLoad(m, addr)
        hi == MemLoad(m, (addr + 1) % U16)
    IN  IF ~IsOk(lo) THEN lo
        ELSE IF ~IsOk(hi) THEN hi
        ELSE Ok(lo.v + 256 * hi.v)

\* Memory::load16
MemLoad16(m, addr) ==
    LET high_addr == get_high_addr(addr)
        lo == MemLoad(m, addr)
        hi == MemLoad(m, high_addr)
    IN  IF ~IsOk(lo) THEN lo
        ELSE IF ~IsOk(hi) THEN hi
        ELSE Ok(lo.v + 256 * hi.v)

\* Memory::store16: the low byte is stored first and stays stored when the
\* store of the high byte fails
MemStore16(m, addr, val) ==
    LET high_addr == get_high_addr(addr)
        s1 == MemStore(m, addr, val % 256)
    IN  IF ~IsOk(s1.r) THEN s1
        ELSE MemStore(s1.m, high_addr, val \div 256)

----------------------------------------------------------------------------
(* memory/mod.rs: the stack helpers. Each returns the result, the stack    *)
(* pointer and the memory afterwards.                                      *)

\* stack_push as the hardware does it: at 0 the pointer wraps to 0xFF
stack_push_wraps(m, sp, val) ==
    [r |-> Ok(0), sp |-> (sp + U8 - 1) % U8,
     m |-> [m EXCEPT !.ram = ArrSet(@, MEM_STACK_BEGIN + sp, val)]]

\* stack_push decrementing before it writes
stack_push_decrements_first(m, sp, val) ==
    IF sp = 0 THEN [r |-> Err("Stack Overflow"), sp |-> sp, m |-> m]
    ELSE [r |-> Ok(0), sp |-> sp - 1,
          m |-> [m EXCEPT !.ram = ArrSet(@, MEM_STACK_BEGIN + sp - 1, val)]]

\* Memory::stack_push
stack_push(m, sp, val) ==
    IF sp = 0 THEN [r |-> Err("Stack Overflow"), sp |-> sp, m |-> m]
    ELSE LET addr == MEM_STACK_BEGIN + sp
         IN  IF addr >= MEM_RAM_SIZE THEN [r |-> Panic, sp |-> sp, m |-> m]
             ELSE [r |-> Ok(0), sp |-> sp - 1,
                   m |-> [m EXCEPT !.ram = ArrSet(@, addr, val)]]

\* stack_pop reading the cell before moving the pointer
stack_pop_reads_first(m, sp) ==
    IF sp = MEM_STACK_END - MEM_STACK_BEGIN
        THEN [r |-> Err("Stack Underflow"), sp |-> sp, m |-> m]
        ELSE [r |-> Ok(ArrGet(m.ram, MEM_STACK_BEGIN + sp)), sp |-> sp + 1, m |-> m]

\* Memory::stack_pop
stack_pop(m, sp) ==
    IF sp = MEM_STACK_END - MEM_STACK_BEGIN
        THEN [r |-> Err("Stack Underflow"), sp |-> sp, m |-> m]
    ELSE LET sp1 == sp + 1
             addr == MEM_STACK_BEGIN + sp1
         IN  IF addr >= MEM_RAM_SIZE THEN [r |-> Panic, sp |-> sp1, m |-> m]
             ELSE [r |-> Ok(ArrGet(m.ram, addr)), sp |-> sp1, m |-> m]

\* stack_push_addr pushing the low byte first
stack_push_addr_low_first(m, sp, addr) ==
    Bind(stack_push(m, sp, addr % 256),
         LAMBDA lo : IF IsOk(lo.r) THEN stack_push(lo.m, lo.sp, addr \div 256) ELSE lo)

\* Memory::stack_push_addr: the high byte is pushed first
stack_push_addr(m, sp, addr) ==
    Bind(stack_push(m, sp, addr \div 256),
         LAMBDA hi : IF IsOk(hi.r) THEN stack_push(hi.m, hi.sp, addr % 256) ELSE hi)

\* Memory::stack_pop_addr: the low byte is popped first
stack_pop_addr(m, sp) ==
    Bind(stack_pop(m, sp),
         LAMBDA pcl :
             IF ~IsOk(pcl.r) THEN pcl
             ELSE Bind(stack_pop(pcl.m, pcl.sp),
                       LAMBDA pch : IF ~IsOk(pch.r) THEN pch
                                    ELSE [pch EXCEPT !.r = Ok(256 * pch.r.v + pcl.r.v)]))

----------------------------------------------------------------------------
(* bitset.rs: bytes as bit sets                                            *)

RECURSIVE BitAnd(_, _)
\* u8 & u8
BitAnd(a, b) ==
    IF a = 0 \/ b = 0 THEN 0
    ELSE (a % 2) * (b % 2) + 2 * BitAnd(a \div 2, b \div 2)

\* u8 | u8
BitOr(a, b) == a + b - BitAnd(a, b)

\* !u8
BitNot(a) == 255 - a

RECURSIVE Pow2(_)
\* 1 << n
Pow2(n) == IF n = 0 THEN 1 ELSE 2 * Pow2(n - 1)

\* bit_toggle
bit_toggle(v, state, posn) ==
    BitOr(BitAnd(v, BitNot(Pow2(posn))), ((state % 2) * Pow2(posn)) % U8)

\* bit_get
bit_get(v, posn) == BitAnd(v, Pow2(posn)) # 0

\* BiasedBitSet::default
BiasedDefault == [v |-> 0, set0 |-> 255, set1 |-> 0]

\* BiasedBitSet::sanitize
sanitize(bs, v) == BitOr(BitAnd(v, bs.set0), bs.set1)

\* BiasedBitSet::store
biased_store(bs, v) == [bs EXCEPT !.v = sanitize(bs, v)]

\* BiasedBitSet::bias
biased_bias(bs, bit, v) ==
    LET b == v % 2
        s0 == BitAnd(bs.set0, BitNot(((1 - b) * Pow2(bit)) % U8))
        s1 == BitOr(bs.set1, (b * Pow2(bit)) % U8)
        nb == [bs EXCEPT !.set0 = s0, !.set1 = s1]
    IN  [nb EXCEPT !.v = sanitize(nb, bs.v)]

\* BiasedBitSet::set
biased_set(bs, idx, val) == [bs EXCEPT !.v = sanitize(bs, bit_toggle(bs.v, val, idx))]

----------------------------------------------------------------------------
(* ppu/registers.rs: the PPU register block, a memory-mapped device         *)

PPUCTRL_ADDR == 8192
PPUMASK_ADDR == 8193
PPUSTATUS_ADDR == 8194
OAMADDR_ADDR == 8195
OAMDATA_ADDR == 8196
PPUSCROLL_ADDR == 8197
PPUADDR_ADDR == 8198
PPUDATA_ADDR == 8199

RECURSIVE BiasLow(_, _)
\* the loop of Registers::new: bits 0 .. n-1 biased to 0
BiasLow(bs, n) == IF n = 0 THEN bs ELSE biased_bias(BiasLow(bs, n - 1), n - 1, 0)

\* ppu::registers::Registers::new
PpuRegistersNew ==
    [kind |-> "ppu",
     ppuctrl |-> biased_bias(BiasedDefault, 6, 0),
     ppumask |-> BiasedDefault,
     ppustatus |-> BiasLow(BiasedDefault, 5),
     oamaddr |-> 0,
     ppuscroll |-> [x |-> 0, y |-> 0],
     ppuaddr |-> 0,
     latch |-> 0]

\* Registers::get_vram_inc
get_vram_inc(d) == IF bit_get(d.ppuctrl.v, 2) THEN 32 ELSE 1

\* Registers::set_vblank
set_vblank(d, is_enabled) ==
    [d EXCEPT !.ppuctrl = biased_set(@, 7, IF is_enabled THEN 1 ELSE 0)]

\* load with a status read that leaves bit 7 of the status as it is
PpuLoad_keeps_bit7(d, addr) ==
    IF addr = PPUCTRL_ADDR
        THEN [r |-> Ok(d.ppuctrl.v), d |-> [d EXCEPT !.latch = d.ppuctrl.v]]
    ELSE IF addr = PPUMASK_ADDR
        THEN [r |-> Ok(d.ppumask.v), d |-> [d EXCEPT !.latch = d.ppumask.v]]
    ELSE IF addr = PPUSTATUS_ADDR
        THEN LET v == BitOr(d.ppustatus.v, BitAnd(d.latch, 31))
             IN  [r |-> Ok(v), d |-> [d EXCEPT !.latch = v]]
    ELSE IF addr = OAMADDR_ADDR
        THEN [r |-> Ok(d.oamaddr), d |-> [d EXCEPT !.latch = d.oamaddr]]
    ELSE IF addr = PPUDATA_ADDR
        THEN [r |-> Ok(0),
              d |-> [d EXCEPT !.ppuaddr = @ + get_vram_inc(d), !.latch = 0]]
    ELSE [r |-> Err("Address not readable"), d |-> d]

\* <Registers as MemoryMapped>::load: the result and the device afterwards
PpuLoad(d, addr) ==
    IF addr = PPUCTRL_ADDR
        THEN [r |-> Ok(d.ppuctrl.v), d |-> [d EXCEPT !.latch = d.ppuctrl.v]]
    ELSE IF addr = PPUMASK_ADDR
        THEN [r |-> Ok(d.ppumask.v), d |-> [d EXCEPT !.latch = d.ppumask.v]]
    ELSE IF addr = PPUSTATUS_ADDR
        THEN LET v == BitOr(d.ppustatus.v, BitAnd(d.latch, 31))
             IN  [r |-> Ok(v),
                  d |-> [d EXCEPT !.ppustatus = biased_set(@, 7, 0), !.latch = v]]
    ELSE IF addr = OAMADDR_ADDR
        THEN [r |-> Ok(d.oamaddr), d |-> [d EXCEPT !.latch = d.oamaddr]]
    ELSE IF addr = PPUDATA_ADDR
        THEN [r |-> Ok(0),
              d |-> [d EXCEPT !.ppuaddr = @ + get_vram_inc(d), !.latch = 0]]
    ELSE [r |-> Err("Address not readable"), d |-> d]

\* <Registers as MemoryMapped>::store: the latch takes the byte first
PpuStore(d, addr, data) ==
    LET l == [d EXCEPT !.latch = data]
    IN  IF addr = PPUCTRL_ADDR
            THEN [r |-> Ok(0), d |-> [l EXCEPT !.ppuctrl = biased_store(@, data)]]
        ELSE IF addr = PPUMASK_ADDR
            THEN [r |-> Ok(0), d |-> [l EXCEPT !.ppumask = biased_store(@, data)]]
        ELSE IF addr = OAMADDR_ADDR
            THEN [r |-> Ok(0), d |-> [l EXCEPT !.oamaddr = data]]
        ELSE IF addr = OAMDATA_ADDR
            THEN [r |-> Ok(0), d |-> [l EXCEPT !.oamaddr = (@ + 1) % U8]]
        ELSE IF addr = PPUSCROLL_ADDR
            THEN [r |-> Ok(0), d |-> [l EXCEPT !.ppuscroll = [x |-> @.y, y |-> data]]]
        ELSE IF addr = PPUADDR_ADDR
            THEN [r |-> Ok(0), d |-> [l EXCEPT !.ppuaddr = (@ * 256 + data) % U16]]
        ELSE IF addr = PPUDATA_ADDR
            THEN [r |-> Ok(0), d |-> [l EXCEPT !.ppuaddr = @ + get_vram_inc(l)]]
        ELSE [r |-> Err("Address not writable"), d |-> l]

----------------------------------------------------------------------------
(* bus/mod.rs: RAM-like devices and the bus                                *)

\* MemoryMappedRam::new: size zeroed bytes
RamNew(size) == [kind |-> "ram", len |-> size, data |-> ZeroArr]

\* <MemoryMappedRam as MemoryMapped>::load: an offset equal to the length
\* passes the range test and indexes past the end of the vector
RamLoad(d, addr) ==
    IF addr > d.len THEN [r |-> Err("load out of range"), d |-> d]
    ELSE IF addr >= d.len THEN [r |-> Panic, d |-> d]
    ELSE [r |-> Ok(ArrGet(d.data, addr)), d |-> d]

\* <MemoryMappedRam as MemoryMapped>::store
RamStore(d, addr, data) ==
    IF addr > d.len THEN [r |-> Err("store out of range"), d |-> d]
    ELSE IF addr >= d.len THEN [r |-> Panic, d |-> d]
    ELSE [r |-> Ok(0), d |-> [d EXCEPT !.data = ArrSet(@, addr, data)]]

\* dyn MemoryMapped: load and store of whichever device is behind the box
DevLoad(d, addr) == IF d.kind = "ppu" THEN PpuLoad(d, addr) ELSE RamLoad(d, addr)
DevStore(d, addr, data) ==
    IF d.kind = "ppu" THEN PpuStore(d, addr, data) ELSE RamStore(d, addr, data)

CPU_ZEROPAGE_SIZE == 2048
OAM_SIZE == 256
PPU_PALETTE_RAM_SIZE == 32
NUM_JOYSTICK == 2
PAGE_SIZE == 16384

\* Option::None for the mapper
NoDevice == [kind |-> "none"]

\* vec![0; n]
VecZero(n) == [len |-> n, data |-> ZeroArr]

\* MemoryMappedRam::from_vec
RamFromVec(vals) == [kind |-> "ram", len |-> vals.len, data |-> vals.data]

\* Bus::new; a cartridge of neither one nor two program pages panics, which
\* leaves no bus
BusNew(ppu_nametables, ppu_reg, cartridge_rom, cartridge_vram) ==
    [cpu_zeropage |-> RamNew(CPU_ZEROPAGE_SIZE),
     cpu_oam_dma_reg |-> RamNew(1),
     ppu_reg |-> ppu_reg,
     ppu_nametables |-> ppu_nametables,
     ppu_palette_ram |-> RamNew(PPU_PALETTE_RAM_SIZE),
     oam |-> RamNew(OAM_SIZE),
     joystick |-> RamNew(NUM_JOYSTICK),
     cartridge_rom |-> RamFromVec(cartridge_rom),
     cartridge_rom_offset |-> CASE cartridge_rom.len \div PAGE_SIZE = 1 -> 49152
                                [] cartridge_rom.len \div PAGE_SIZE = 2 -> 32768,
     cartridge_vram |-> RamFromVec(cartridge_vram),
     cartridge_mapper |-> NoDevice]

\* cpu_map_high reporting a missing mapper as an unmapped address
cpu_map_high_one_error(b, addr) ==
    IF addr >= 8192 /\ addr <= 16383
        THEN [r |-> Ok(addr % 8), dev |-> "ppu_reg"]
    ELSE IF addr = 16404
        THEN [r |-> Ok(0), dev |-> "cpu_oam_dma_reg"]
    ELSE IF addr >= 16406 /\ addr <= 16407
        THEN [r |-> Ok(addr - 16406), dev |-> "joystick"]
    ELSE IF addr >= 32768 /\ addr <= 65535 /\ b.cartridge_rom_offset = 32768
        THEN [r |-> Ok(addr - b.cartridge_rom_offset), dev |-> "cartridge_rom"]
    ELSE IF addr >= 32768 /\ addr <= 65535 /\ b.cartridge_rom_offset = 49152
        THEN IF addr < b.cartridge_rom_offset
                THEN IF b.cartridge_mapper.kind # "none"
                        THEN [r |-> Ok(addr - 32768), dev |-> "cartridge_mapper"]
                        ELSE [r |-> Err("Memory access to unmapped vrom"), dev |-> "none"]
                ELSE [r |-> Ok(addr - b.cartridge_rom_offset), dev |-> "cartridge_rom"]
    ELSE [r |-> Err("Memory access to unmapped vrom"), dev |-> "none"]

\* Bus::cpu_map above the RAM region: the arms from 0x2000 up
cpu_map_high(b, addr) ==
    IF addr >= 8192 /\ addr <= 16383
        THEN [r |-> Ok(addr % 8), dev |-> "ppu_reg"]
    ELSE IF addr = 16404
        THEN [r |-> Ok(0), dev |-> "cpu_oam_dma_reg"]
    ELSE IF addr >= 16406 /\ addr <= 16407
        THEN [r |-> Ok(addr - 16406), dev |-> "joystick"]
    ELSE IF addr >= 32768 /\ addr <= 65535 /\ b.cartridge_rom_offset = 32768
        THEN [r |-> Ok(addr - b.cartridge_rom_offset), dev |-> "cartridge_rom"]
    ELSE IF addr >= 32768 /\ addr <= 65535 /\ b.cartridge_rom_offset = 49152
        THEN IF addr < b.cartridge_rom_offset
                THEN IF b.cartridge_mapper.kind # "none"
                        THEN [r |-> Ok(addr - 32768), dev |-> "cartridge_mapper"]
                        ELSE [r |-> Err("No mapper inserted"), dev |-> "none"]
                ELSE [r |-> Ok(addr - b.cartridge_rom_offset), dev |-> "cartridge_rom"]
    ELSE [r |-> Err("Memory access to unmapped vrom"), dev |-> "none"]

\* cpu_map folding the RAM region onto two mirrors' worth of offsets
cpu_map_two_mirrors(b, addr) ==
    IF addr >= 0 /\ addr <= 8191
        THEN [r |-> Ok(addr % (2 * CPU_ZEROPAGE_SIZE)), dev |-> "cpu_zeropage"]
        ELSE cpu_map_high(b, addr)

\* Bus::cpu_map: the device (the name of its field) and the offset in it
cpu_map(b, addr) ==
    IF addr >= 0 /\ addr <= 8191
        THEN [r |-> Ok(addr % CPU_ZEROPAGE_SIZE), dev |-> "cpu_zeropage"]
        ELSE cpu_map_high(b, addr)

\* Bus::cpu_load: the result and the bus afterwards
cpu_load(b, addr) ==
    LET t == cpu_map(b, addr)
    IN  IF ~IsOk(t.r) THEN [r |-> t.r, b |-> b]
        ELSE LET x == DevLoad(b[t.dev], t.r.v)
             IN  [r |-> x.r, b |-> [b EXCEPT ![t.dev] = x.d]]

\* cpu_store that also copies the byte into OAM
cpu_store_fans_out(b, addr, v) ==
    LET t == cpu_map(b, addr)
    IN  IF ~IsOk(t.r) THEN [r |-> t.r, b |-> b]
        ELSE LET x == DevStore(b[t.dev], t.r.v, v)
             IN  [r |-> x.r,
                  b |-> [b EXCEPT ![t.dev] = x.d,
                                  !.oam = IF IsOk(x.r) THEN RamStore(@, t.r.v % OAM_SIZE, v).d
                                          ELSE @]]

\* Bus::cpu_store
cpu_store(b, addr, v) ==
    LET t == cpu_map(b, addr)
    IN  IF ~IsOk(t.r) THEN [r |-> t.r, b |-> b]
        ELSE LET x == DevStore(b[t.dev], t.r.v, v)
             IN  [r |-> x.r, b |-> [b EXCEPT ![t.dev] = x.d]]

----------------------------------------------------------------------------
(* cpu/register.rs: the register file at power-on                          *)

P_DEFAULT == 36

\* Registers::new
RegistersNew == [pc |-> 49152, sp |-> 253, a |-> 0, x |-> 0, y |-> 0, p |-> P_DEFAULT]

----------------------------------------------------------------------------
(* cpu/addressing.rs: the addressing-mode resolver. The resolver reads     *)
(* memory through cpu_load and cpu_load16, taken here to be Memory::load   *)
(* and Memory::load16.                                                     *)

AddressingModes ==
    {"Implied", "Accumulator", "Immediate", "Absolute", "AbsoluteX", "AbsoluteY",
     "Indirect", "IndirectX", "IndirectY", "ZeroPage", "ZeroPageX", "ZeroPageY",
     "Relative", "Illegal", "Unknown"}

\* reg.pc - k on a u16: below zero it panics when the build checks overflow
\* and wraps when it does not
pc_minus(pc, k) ==
    IF pc >= k THEN Ok(pc - k)
    ELSE IF overflow_checks THEN Panic
    ELSE Ok(pc - k + U16)

\* ((x as i16) ^ 0x80) - 0x80: the operand byte as a signed displacement
signed8(b) == (IF b >= 128 THEN b - 128 ELSE b + 128) - 128

\* the ? operator: f applied to the value of an Ok result, an error passed on
Then(r, f(_)) == IF IsOk(r) THEN f(r.v) ELSE r

\* the operand byte at pc - 1 and the operand word at pc - 2
operand_byte(reg, m) == Then(pc_minus(reg.pc, 1), LAMBDA a : MemLoad(m, a))
operand_word(reg, m) == Then(pc_minus(reg.pc, 2), LAMBDA a : MemLoad16(m, a))

\* AbsoluteX / AbsoluteY with the index added to the low byte only
mode_absolute_in_page(reg, m, idx) ==
    Then(operand_word(reg, m), LAMBDA w : Ok((w - (w % 256)) + ((w + idx) % 256)))

\* load_operand, AddressingMode::AbsoluteX and AbsoluteY (idx is x or y)
mode_absolute_indexed(reg, m, idx) ==
    Then(operand_word(reg, m), LAMBDA w : Ok((idx + w) % U16))

\* ZeroPageX / ZeroPageY with the sum carried into page 1
mode_zero_page_carries(reg, m, idx) ==
    Then(operand_byte(reg, m), LAMBDA b : Ok(b + idx))

\* load_operand, AddressingMode::ZeroPageX and ZeroPageY (idx is x or y)
mode_zero_page_indexed(reg, m, idx) ==
    Then(operand_byte(reg, m), LAMBDA b : Ok(((b + idx) % U8) % 256))

\* load_operand, AddressingMode::Indirect
mode_indirect(reg, m) ==
    Then(operand_word(reg, m), LAMBDA imm : MemLoad16(m, imm))

\* IndirectX with the pointer address carried into page 1
mode_indirect_x_carries(reg, m) ==
    Then(operand_byte(reg, m), LAMBDA b : MemLoad16(m, b + reg.x))

\* load_operand, AddressingMode::IndirectX
mode_indirect_x(reg, m) ==
    Then(operand_byte(reg, m), LAMBDA b : MemLoad16(m, ((b + reg.x) % U16) % 256))

\* IndirectY with Y added to the pointer address instead of the pointer
mode_indirect_y_indexes_pointer(reg, m) ==
    Then(operand_byte(reg, m), LAMBDA b : MemLoad16(m, (b + reg.y) % 256))

\* load_operand, AddressingMode::IndirectY
mode_indirect_y(reg, m) ==
    Then(operand_byte(reg, m), LAMBDA b :
        Then(MemLoad16(m, b), LAMBDA w : Ok((w + reg.y) % U16)))

\* Relative with the operand byte taken as unsigned
mode_relative_unsigned(reg, m) ==
    Then(operand_byte(reg, m), LAMBDA b : Ok((reg.pc + b) % U16))

\* load_operand, AddressingMode::Relative
mode_relative(reg, m) ==
    Then(operand_byte(reg, m), LAMBDA b : Ok((reg.pc + signed8(b) + U16) % U16))

\* load_operand with Implied resolved like Immediate
load_operand_implied_reads(mode, reg, m) ==
    CASE mode = "Accumulator" -> Ok(reg.a)
      [] mode \in {"Immediate", "Implied"} -> operand_byte(reg, m)
      [] mode = "Absolute" -> operand_word(reg, m)
      [] mode = "AbsoluteX" -> mode_absolute_indexed(reg, m, reg.x)
      [] mode = "AbsoluteY" -> mode_absolute_indexed(reg, m, reg.y)
      [] mode = "ZeroPage" -> operand_byte(reg, m)
      [] mode = "ZeroPageX" -> mode_zero_page_indexed(reg, m, reg.x)
      [] mode = "ZeroPageY" -> mode_zero_page_indexed(reg, m, reg.y)
      [] mode = "Indirect" -> mode_indirect(reg, m)
      [] mode = "IndirectX" -> mode_indirect_x(reg, m)
      [] mode = "IndirectY" -> mode_indirect_y(reg, m)
      [] mode = "Relative" -> mode_relative(reg, m)
      [] OTHER -> Err("IllegalInstruction")

\* AddressingMode::load_operand
load_operand(mode, reg, m) ==
    CASE mode = "Accumulator" -> Ok(reg.a)
      [] mode = "Immediate" -> operand_byte(reg, m)
      [] mode = "Absolute" -> operand_word(reg, m)
      [] mode = "AbsoluteX" -> mode_absolute_indexed(reg, m, reg.x)
      [] mode = "AbsoluteY" -> mode_absolute_indexed(reg, m, reg.y)
      [] mode = "ZeroPage" -> operand_byte(reg, m)
      [] mode = "ZeroPageX" -> mode_zero_page_indexed(reg, m, reg.x)
      [] mode = "ZeroPageY" -> mode_zero_page_indexed(reg, m, reg.y)
      [] mode = "Indirect" -> mode_indirect(reg, m)
      [] mode = "IndirectX" -> mode_indirect_x(reg, m)
      [] mode = "IndirectY" -> mode_indirect_y(reg, m)
      [] mode = "Relative" -> mode_relative(reg, m)
      [] OTHER -> Err("IllegalInstruction")

----------------------------------------------------------------------------
(* build.rs and cpu/instruction.rs: the generated instruction table. The   *)
(* two CSV files are read record by record; a record is modelled by its    *)
(* parsed fields: opcode, mnemonic, mode column, bytes, cycles and whether *)
(* the cycles column carries a '/'.                                        *)

\* build.rs addr_mode_str
addr_mode_str(input) ==
    CASE input = "IMP" -> "Implied"
      [] input = "ACC" -> "Accumulator"
      [] input = "IMM" -> "Immediate"
      [] input = "ABS" -> "Absolute"
      [] input = "ABSX" -> "AbsoluteX"
      [] input = "ABSY" -> "AbsoluteY"
      [] input = "IND" -> "Indirect"
      [] input = "INDX" -> "IndirectX"
      [] input = "INDY" -> "IndirectY"
      [] input = "ZP" -> "ZeroPage"
      [] input = "ZPX" -> "ZeroPageX"
      [] input = "ZPY" -> "ZeroPageY"
      [] input = "REL" -> "Relative"
      [] input = "ILL" -> "Illegal"
      [] OTHER -> "Unknown"

\* Instruction::new
InstructionNew(opcode, mnemonic, bytes, cycles, can_cross_page, addr_mode) ==
    [opcode |-> opcode, mnemonic |-> mnemonic, bytes |-> bytes, cycles |-> cycles,
     can_cross_page |-> can_cross_page, addr_mode |-> addr_mode]

\* build.rs csv_to_instr: the match arm a record becomes; unofficial
\* mnemonics get a star
csv_to_instr(record, is_legal) ==
    [opcode |-> record.opcode,
     instr |-> InstructionNew(record.opcode,
                              IF is_legal THEN <<record.mnemonic>>
                                          ELSE <<"*", record.mnemonic>>,
                              record.bytes, record.cycles, record.cross,
                              addr_mode_str(record.mode))]

\* Instruction::illegal with the opcode field left at zero
illegal_opcode_zero(opcode) ==
    InstructionNew(0, <<"ILLEGAL">>, 1, 0, FALSE, "Illegal")

\* Instruction::illegal
illegal(opcode) ==
    InstructionNew(opcode, <<"ILLEGAL">>, 1, 0, FALSE, "Illegal")

\* the arms of the generated match, in the order build.rs writes them
lookup_arms(leg, unoff) ==
    [i \in 1..Len(leg) |-> csv_to_instr(leg[i], TRUE)]
        \o [i \in 1..Len(unoff) |-> csv_to_instr(unoff[i], FALSE)]

\* the generated lookup_instr taking the arm written last for the opcode
lookup_instr_last_arm(leg, unoff, opcode) ==
    LET arms == lookup_arms(leg, unoff)
        hits == {i \in 1..Len(arms) : arms[i].opcode = opcode}
    IN  IF hits = {} THEN illegal(opcode)
        ELSE arms[CHOOSE i \in hits : \A j \in hits : i >= j].instr

\* the generated lookup_instr: the first arm whose pattern is the opcode,
\* the wildcard arm otherwise
lookup_instr(leg, unoff, opcode) ==
    LET arms == lookup_arms(leg, unoff)
        hits == {i \in 1..Len(arms) : arms[i].opcode = opcode}
    IN  IF hits = {} THEN illegal(opcode)
        ELSE arms[CHOOSE i \in hits : \A j \in hits : i <= j].instr

\* Instruction::lookup
lookup(leg, unoff, opcode) == lookup_instr(leg, unoff, opcode)

----------------------------------------------------------------------------
(* cpu/register.rs: the status flags                                       *)

\* enum Flags: the bit of p each flag occupies
Flags == [C |-> 0, Z |-> 1, I |-> 2, D |-> 3, B |-> 4, V |-> 6, N |-> 7]

\* Registers::get_flag
get_flag(reg, f) == bit_get(reg.p, f)

\* Registers::set_flag
set_flag(reg, f, s) == [reg EXCEPT !.p = bit_toggle(@, IF s THEN 1 ELSE 0, f)]

\* Registers::set_n, on a u16
set_n(reg, x) == set_flag(reg, Flags.N, BitAnd(x, 128) # 0)

\* Registers::set_z, on a u16
set_z(reg, x) == set_flag(reg, Flags.Z, x = 0)

----------------------------------------------------------------------------
(* cpu/mod.rs: the CPU. A Cpu is [cycle, registers]; a handler returns its *)
(* result together with the Cpu and the memory it leaves behind. Handlers  *)
(* read and write memory through cpu_load and cpu_store, taken here to be  *)
(* Memory::load and Memory::store.                                         *)

\* u16 ^ u16
BitXor(a, b) == a + b - 2 * BitAnd(a, b)

\* what a handler hands back
Handled(r, cpu, m) == [r |-> r, cpu |-> cpu, m |-> m]

\* Cpu::calc_page_cross_penalty
calc_page_cross_penalty(addr1, addr2) ==
    IF BitAnd(addr1, 65280) # BitAnd(addr2, 65280) THEN 1 ELSE 0

\* pay_for_page_cross charging descriptors that are not flagged as well
pay_for_page_cross_unflagged(cpu, instr, addr) ==
    LET src_addr == CASE instr.addr_mode = "Relative" -> cpu.registers.pc
                      [] instr.addr_mode = "AbsoluteX" -> (addr - cpu.registers.x + U16) % U16
                      [] instr.addr_mode \in {"AbsoluteY", "IndirectY"} ->
                             (addr - cpu.registers.y + U16) % U16
                      [] OTHER -> addr
    IN  [cpu EXCEPT !.cycle = @ + calc_page_cross_penalty(src_addr, addr)]

\* pay_for_page_cross: the Cpu after the penalty is charged
pay_for_page_cross(cpu, instr, addr) ==
    IF instr.can_cross_page
    THEN LET src_addr == CASE instr.addr_mode = "Relative" -> cpu.registers.pc
                           [] instr.addr_mode = "AbsoluteX" ->
                                  (addr - cpu.registers.x + U16) % U16
                           [] instr.addr_mode \in {"AbsoluteY", "IndirectY"} ->
                                  (addr - cpu.registers.y + U16) % U16
                           [] OTHER -> addr
         IN  [cpu EXCEPT !.cycle = @ + calc_page_cross_penalty(src_addr, addr)]
    ELSE cpu

\* fetch_operand: the penalty is charged before the operand is read
fetch_operand(cpu, instr, m, addr) ==
    Handled(IF instr.addr_mode \in {"Absolute", "AbsoluteX", "AbsoluteY", "ZeroPage",
                                    "ZeroPageX", "ZeroPageY", "Indirect", "IndirectX",
                                    "IndirectY"}
            THEN MemLoad(m, addr)
            ELSE Ok(addr % U8),
            pay_for_page_cross(cpu, instr, addr), m)

\* let addr = instr.addr_mode.load_operand(..)?; then F(addr)
WithOperand(cpu, instr, m, F(_)) ==
    Bind(load_operand(instr.addr_mode, cpu.registers, m),
         LAMBDA addr : IF IsOk(addr) THEN F(addr.v) ELSE Handled(addr, cpu, m))

\* let addr = load_operand(..)?; let s = fetch_operand(.., addr)?; then
\* F(addr, s, cpu) with the Cpu the fetch left behind
WithFetched(cpu, instr, m, F(_, _, _)) ==
    WithOperand(cpu, instr, m,
                LAMBDA addr : Bind(fetch_operand(cpu, instr, m, addr),
                                   LAMBDA f : IF IsOk(f.r) THEN F(addr, f.r.v, f.cpu) ELSE f))

\* nop_execute
nop_execute(cpu, instr, m) ==
    IF instr.addr_mode = "AbsoluteX"
    THEN WithOperand(cpu, instr, m,
                     LAMBDA addr : Handled(Ok(0), pay_for_page_cross(cpu, instr, addr), m))
    ELSE Handled(Ok(0), cpu, m)

\* br_execute with the page-cross check made whether or not the branch is taken
br_execute_always_pays(cpu, instr, m, flag, state) ==
    WithOperand(cpu, instr, m,
                LAMBDA dest :
                    IF state = get_flag(cpu.registers, flag)
                    THEN Handled(Ok(0),
                                 [pay_for_page_cross([cpu EXCEPT !.cycle = @ + 1], instr, dest)
                                     EXCEPT !.registers.pc = dest], m)
                    ELSE Handled(Ok(0), pay_for_page_cross(cpu, instr, dest), m))

\* br_execute
br_execute(cpu, instr, m, flag, state) ==
    IF state = get_flag(cpu.registers, flag)
    THEN WithOperand(cpu, instr, m,
                     LAMBDA dest :
                         Handled(Ok(0),
                                 [pay_for_page_cross([cpu EXCEPT !.cycle = @ + 1], instr, dest)
                                     EXCEPT !.registers.pc = dest], m))
    ELSE Handled(Ok(0), cpu, m)

bcc_execute(cpu, instr, m) == br_execute(cpu, instr, m, Flags.C, FALSE)
bcs_execute(cpu, instr, m) == br_execute(cpu, instr, m, Flags.C, TRUE)
beq_execute(cpu, instr, m) == br_execute(cpu, instr, m, Flags.Z, TRUE)
bmi_execute(cpu, instr, m) == br_execute(cpu, instr, m, Flags.N, TRUE)
bne_execute(cpu, instr, m) == br_execute(cpu, instr, m, Flags.Z, FALSE)
bpl_execute(cpu, instr, m) == br_execute(cpu, instr, m, Flags.N, FALSE)
bvc_execute(cpu, instr, m) == br_execute(cpu, instr, m, Flags.V, FALSE)
bvs_execute(cpu, instr, m) == br_execute(cpu, instr, m, Flags.V, TRUE)

\* adc_execute's registers with the low decimal digit adjusted when the Decimal
\* flag is set
adc_registers_decimal(reg, s, c) ==
    LET a == reg.a
        adj == IF get_flag(reg, Flags.D) /\ (a % 16) + (s % 16) + c > 9 THEN 6 ELSE 0
        sum == a + s + c + adj
        l == BitAnd(BitXor(a, sum), 128) # 0
        r == BitAnd(BitXor(a, s), 128) # 0
        v == ~r /\ l
    IN  set_n(set_flag(set_flag(set_z([reg EXCEPT !.a = sum % U8], BitAnd(sum, 255)),
                                Flags.C, BitAnd(sum, 65280) # 0),
                       Flags.V, v),
              sum)

\* the registers adc_execute leaves, from the registers before, the operand s
\* and the carry c added in
adc_registers(reg, s, c) ==
    LET a == reg.a
        sum == a + s + c
        l == BitAnd(BitXor(a, sum), 128) # 0
        r == BitAnd(BitXor(a, s), 128) # 0
        v == ~r /\ l
    IN  set_n(set_flag(set_flag(set_z([reg EXCEPT !.a = sum % U8], BitAnd(sum, 255)),
                                Flags.C, BitAnd(sum, 65280) # 0),
                       Flags.V, v),
              sum)

\* adc_execute with the carry flag left out of the sum
adc_execute_drops_carry_in(cpu, instr, m) ==
    WithFetched(cpu, instr, m,
                LAMBDA addr, s, cpu1 :
                    Handled(Ok(0), [cpu1 EXCEPT !.registers = adc_registers(@, s, 0)], m))

\* adc_execute
adc_execute(cpu, instr, m) ==
    WithFetched(cpu, instr, m,
                LAMBDA addr, s, cpu1 :
                    Handled(Ok(0),
                            [cpu1 EXCEPT !.registers =
                                adc_registers(@, s, IF get_flag(@, Flags.C) THEN 1 ELSE 0)],
                            m))

\* increment_helper: the new value and the registers with Z and N set from it
increment_helper(src, amt, reg) ==
    LET val == (src + amt + U8) % U8
    IN  [v |-> val, reg |-> set_n(set_z(reg, val), val)]

\* inc_execute
inc_execute(cpu, instr, m) ==
    WithFetched(cpu, instr, m,
                LAMBDA addr, s, cpu1 :
                    Bind(increment_helper(s, 1, cpu1.registers),
                         LAMBDA h : Bind(MemStore(m, addr, h.v),
                                         LAMBDA st : Handled(st.r,
                                                             [cpu1 EXCEPT !.registers = h.reg],
                                                             st.m))))

\* ld_execute: the loaded byte, N and Z set from it
ld_execute(cpu, instr, m) ==
    WithFetched(cpu, instr, m,
                LAMBDA addr, v, cpu1 :
                    Handled(Ok(v), [cpu1 EXCEPT !.registers = set_z(set_n(@, v), v)], m))

\* lda_execute
lda_execute(cpu, instr, m) ==
    Bind(ld_execute(cpu, instr, m),
         LAMBDA v : IF IsOk(v.r) THEN Handled(Ok(0), [v.cpu EXCEPT !.registers.a = v.r.v], m)
                    ELSE v)

\* the registers sbc_execute leaves, from the registers before, the operand s
\* and the borrow c taken out
sbc_registers(reg, s, c) ==
    LET a == reg.a
        sum == (a - s - c + U16) % U16
        l == BitAnd(BitXor(a, sum), 128) # 0
        r == BitAnd(BitXor(a, s), 128) # 0
        v == r /\ l
    IN  set_n(set_flag(set_flag(set_z([reg EXCEPT !.a = sum % U8], BitAnd(sum, 255)),
                                Flags.C, sum < 256),
                       Flags.V, v),
              sum)

\* sbc_execute with no borrow taken when the carry flag is clear
sbc_execute_drops_borrow(cpu, instr, m) ==
    WithFetched(cpu, instr, m,
                LAMBDA addr, s, cpu1 :
                    Handled(Ok(0), [cpu1 EXCEPT !.registers = sbc_registers(@, s, 0)], m))

\* sbc_execute
sbc_execute(cpu, instr, m) ==
    WithFetched(cpu, instr, m,
                LAMBDA addr, s, cpu1 :
                    Handled(Ok(0),
                            [cpu1 EXCEPT !.registers =
                                sbc_registers(@, s, IF get_flag(@, Flags.C) THEN 0 ELSE 1)],
                            m))

\* do_cmp with the carry set on a borrow
do_cmp_carry_on_borrow(cpu, instr, m, src) ==
    WithFetched(cpu, instr, m,
                LAMBDA addr, s, cpu1 :
                    Bind((src - s + U16) % U16,
                         LAMBDA sum :
                             Handled(Ok(0),
                                     [cpu1 EXCEPT !.registers =
                                         set_z(set_flag(set_flag(@, Flags.C, sum >= 256),
                                                        Flags.N, BitAnd(sum, 128) # 0),
                                               sum)],
                                     m)))

\* do_cmp: src - operand as an i16, seen as a u16
do_cmp(cpu, instr, m, src) ==
    WithFetched(cpu, instr, m,
                LAMBDA addr, s, cpu1 :
                    Bind((src - s + U16) % U16,
                         LAMBDA sum :
                             Handled(Ok(0),
                                     [cpu1 EXCEPT !.registers =
                                         set_z(set_flag(set_flag(@, Flags.C, sum < 256),
                                                        Flags.N, BitAnd(sum, 128) # 0),
                                               sum)],
                                     m)))

cmp_execute(cpu, instr, m) == do_cmp(cpu, instr, m, cpu.registers.a)
cpx_execute(cpu, instr, m) == do_cmp(cpu, instr, m, cpu.registers.x)
cpy_execute(cpu, instr, m) == do_cmp(cpu, instr, m, cpu.registers.y)

\* dec_execute
dec_execute(cpu, instr, m) ==
    WithFetched(cpu, instr, m,
                LAMBDA addr, s, cpu1 :
                    Bind(increment_helper(s, -1, cpu1.registers),
                         LAMBDA h : Bind(MemStore(m, addr, h.v),
                                         LAMBDA st : Handled(st.r,
                                                             [cpu1 EXCEPT !.registers = h.reg],
                                                             st.m))))

\* a &= s, a |= s, a ^= s: N and Z set from the new a
logic_registers(reg, a) == set_z(set_n([reg EXCEPT !.a = a], a), a)

\* and_execute
and_execute(cpu, instr, m) ==
    WithFetched(cpu, instr, m,
                LAMBDA addr, s, cpu1 :
                    Handled(Ok(0),
                            [cpu1 EXCEPT !.registers = logic_registers(@, BitAnd(@.a, s))], m))

\* ora_execute
ora_execute(cpu, instr, m) ==
    WithFetched(cpu, instr, m,
                LAMBDA addr, s, cpu1 :
                    Handled(Ok(0),
                            [cpu1 EXCEPT !.registers = logic_registers(@, BitOr(@.a, s))], m))

\* eor_execute
eor_execute(cpu, instr, m) ==
    WithFetched(cpu, instr, m,
                LAMBDA addr, s, cpu1 :
                    Handled(Ok(0),
                            [cpu1 EXCEPT !.registers = logic_registers(@, BitXor(@.a, s))], m))

\* the tail of asl, lsr, rol and ror: carry c, N and Z from the new value v,
\* v written to the accumulator or stored at addr
shift_write(cpu1, instr, m, addr, v, c) ==
    Bind(set_z(set_n(set_flag(cpu1.registers, Flags.C, c), v), v),
         LAMBDA reg :
             IF instr.addr_mode = "Accumulator"
             THEN Handled(Ok(0), [cpu1 EXCEPT !.registers = [reg EXCEPT !.a = v]], m)
             ELSE Bind(MemStore(m, addr, v),
                       LAMBDA st : Handled(st.r, [cpu1 EXCEPT !.registers = reg], st.m)))

\* asl_execute
asl_execute(cpu, instr, m) ==
    WithFetched(cpu, instr, m,
                LAMBDA addr, v, cpu1 :
                    shift_write(cpu1, instr, m, addr, (2 * v) % U8, BitAnd(v, 128) # 0))

\* lsr_execute
lsr_execute(cpu, instr, m) ==
    WithFetched(cpu, instr, m,
                LAMBDA addr, v, cpu1 :
                    shift_write(cpu1, instr, m, addr, v \div 2, BitAnd(v, 1) # 0))

\* rol_execute
rol_execute(cpu, instr, m) ==
    WithFetched(cpu, instr, m,
                LAMBDA addr, v, cpu1 :
                    Bind(BitOr(2 * v, IF get_flag(cpu1.registers, Flags.C) THEN 1 ELSE 0),
                         LAMBDA w : shift_write(cpu1, instr, m, addr, w % U8, w > 255)))

\* ror_execute
ror_execute(cpu, instr, m) ==
    WithFetched(cpu, instr, m,
                LAMBDA addr, v, cpu1 :
                    Bind(IF get_flag(cpu1.registers, Flags.C) THEN 256 ELSE 0,
                         LAMBDA c : shift_write(cpu1, instr, m, addr,
                                                (BitOr(v, c) \div 2) % U8, BitAnd(v, 1) # 0)))

\* first(..)?; second(..): the second handler starts from what the first left
AndThen(h, second(_, _)) == Bind(h, LAMBDA h1 : IF IsOk(h1.r) THEN second(h1.cpu, h1.m) ELSE h1)

\* dcp_execute
dcp_execute(cpu, instr, m) ==
    AndThen(dec_execute(cpu, instr, m),
            LAMBDA cpu1, m1 : do_cmp(cpu1, instr, m1, cpu1.registers.a))

\* isc_execute
isc_execute(cpu, instr, m) ==
    AndThen(inc_execute(cpu, instr, m), LAMBDA cpu1, m1 : sbc_execute(cpu1, instr, m1))

\* slo_execute
slo_execute(cpu, instr, m) ==
    AndThen(asl_execute(cpu, instr, m), LAMBDA cpu1, m1 : ora_execute(cpu1, instr, m1))

\* rla_execute
rla_execute(cpu, instr, m) ==
    AndThen(rol_execute(cpu, instr, m), LAMBDA cpu1, m1 : and_execute(cpu1, instr, m1))

\* rra_execute
rra_execute(cpu, instr, m) ==
    AndThen(ror_execute(cpu, instr, m), LAMBDA cpu1, m1 : adc_execute(cpu1, instr, m1))

\* sre_execute
sre_execute(cpu, instr, m) ==
    AndThen(lsr_execute(cpu, instr, m), LAMBDA cpu1, m1 : eor_execute(cpu1, instr, m1))

\* lax_execute
lax_execute(cpu, instr, m) ==
    Bind(ld_execute(cpu, instr, m),
         LAMBDA v : IF IsOk(v.r)
                    THEN Handled(Ok(0), [v.cpu EXCEPT !.registers.a = v.r.v,
                                                      !.registers.x = v.r.v], m)
                    ELSE v)

\* the interrupt vectors
ADDR_IRQ == 65534
ADDR_NMI == 65530
ADDR_RESET == 65532

\* enum InterruptType
InterruptTypes == {"BRK", "NMI", "IRQ"}

\* Cpu::reset leaving the index registers as they are
reset_keeps_index(cpu, m) ==
    Bind(MemLoad16(m, ADDR_RESET),
         LAMBDA v : Handled(IF IsOk(v) THEN Ok(0) ELSE v,
                            [cycle |-> 0,
                             registers |-> [RegistersNew EXCEPT
                                               !.pc = IF IsOk(v) THEN v.v ELSE @,
                                               !.x = cpu.registers.x, !.y = cpu.registers.y]],
                            m))

\* Cpu::reset: the counter and the registers are reset before the vector is read
reset(cpu, m) ==
    Bind(MemLoad16(m, ADDR_RESET),
         LAMBDA v : Handled(IF IsOk(v) THEN Ok(0) ELSE v,
                            [cycle |-> 0,
                             registers |-> IF IsOk(v) THEN [RegistersNew EXCEPT !.pc = v.v]
                                           ELSE RegistersNew],
                            m))

\* Cpu::jsr with the counter set to the descriptor's cycles
jsr_restarts_count(cpu, addr, leg, unoff) ==
    Bind(lookup(leg, unoff, 32),
         LAMBDA instr : [r |-> Ok(0), instr |-> instr,
                         cpu |-> [cpu EXCEPT !.cycle = instr.cycles, !.registers.pc = addr]])

\* Cpu::jsr: the descriptor of opcode 0x20 is charged and PC set
jsr(cpu, addr, leg, unoff) ==
    Bind(lookup(leg, unoff, 32),
         LAMBDA instr : [r |-> Ok(0), instr |-> instr,
                         cpu |-> [cpu EXCEPT !.cycle = @ + instr.cycles, !.registers.pc = addr]])

\* self.registers.pc + 1 on a u16: past 0xFFFF it panics when the build checks
\* overflow and wraps when it does not
pc_plus_one(pc) ==
    IF pc + 1 < U16 THEN Ok(pc + 1)
    ELSE IF overflow_checks THEN Panic
    ELSE Ok(0)

\* interrupt_service with InterruptDisable set before the status is pushed
interrupt_service_disables_first(cpu, m, t, pc) ==
    Bind(stack_push_addr(m, cpu.registers.sp, pc),
         LAMBDA pa :
             IF ~IsOk(pa.r) THEN Handled(pa.r, [cpu EXCEPT !.registers.sp = pa.sp], pa.m)
             ELSE Bind(set_flag(set_flag([cpu.registers EXCEPT !.sp = pa.sp], Flags.B,
                                         t = "BRK"),
                                Flags.I, TRUE),
                       LAMBDA reg :
                           Bind(stack_push(pa.m, reg.sp, reg.p),
                                LAMBDA ps :
                                    IF ~IsOk(ps.r)
                                    THEN Handled(ps.r, [cpu EXCEPT !.registers = reg], ps.m)
                                    ELSE Bind(MemLoad16(ps.m, IF t = "NMI" THEN ADDR_NMI
                                                              ELSE ADDR_IRQ),
                                              LAMBDA v :
                                                  Handled(IF IsOk(v) THEN Ok(0) ELSE v,
                                                          [cpu EXCEPT !.registers =
                                                              [reg EXCEPT !.sp = ps.sp,
                                                                          !.pc = IF IsOk(v) THEN v.v
                                                                                 ELSE @]],
                                                          ps.m)))))

\* the part of Cpu::interrupt after the return address is chosen: the pushes,
\* the flags and the vector
interrupt_service(cpu, m, t, pc) ==
    Bind(stack_push_addr(m, cpu.registers.sp, pc),
         LAMBDA pa :
             IF ~IsOk(pa.r) THEN Handled(pa.r, [cpu EXCEPT !.registers.sp = pa.sp], pa.m)
             ELSE Bind(set_flag([cpu.registers EXCEPT !.sp = pa.sp], Flags.B, t = "BRK"),
                       LAMBDA reg :
                           Bind(stack_push(pa.m, reg.sp, reg.p),
                                LAMBDA ps :
                                    IF ~IsOk(ps.r)
                                    THEN Handled(ps.r, [cpu EXCEPT !.registers = reg], ps.m)
                                    ELSE Bind(MemLoad16(ps.m, IF t = "NMI" THEN ADDR_NMI
                                                              ELSE ADDR_IRQ),
                                              LAMBDA v :
                                                  Handled(IF IsOk(v) THEN Ok(0) ELSE v,
                                                          [cpu EXCEPT !.registers =
                                                              [set_flag(reg, Flags.I, TRUE)
                                                                  EXCEPT !.sp = ps.sp,
                                                                         !.pc = IF IsOk(v) THEN v.v
                                                                                ELSE @]],
                                                          ps.m)))))

\* Cpu::interrupt with an IRQ serviced whatever the InterruptDisable flag
interrupt_unmasked(cpu, m, t) ==
    IF t = "BRK"
    THEN Bind(pc_plus_one(cpu.registers.pc),
              LAMBDA pc : IF IsOk(pc) THEN interrupt_service(cpu, m, t, pc.v)
                          ELSE Handled(pc, cpu, m))
    ELSE interrupt_service(cpu, m, t, cpu.registers.pc)

\* Cpu::interrupt
interrupt(cpu, m, t) ==
    IF get_flag(cpu.registers, Flags.I) /\ t = "IRQ" THEN Handled(Ok(0), cpu, m)
    ELSE IF t = "BRK"
    THEN Bind(pc_plus_one(cpu.registers.pc),
              LAMBDA pc : IF IsOk(pc) THEN interrupt_service(cpu, m, t, pc.v)
                          ELSE Handled(pc, cpu, m))
    ELSE interrupt_service(cpu, m, t, cpu.registers.pc)

\* brk_execute
brk_execute(cpu, instr, m) == interrupt(cpu, m, "BRK")

\* rti_execute with the status taken whole from the stack
rti_execute_pops_all_bits(cpu, instr, m) ==
    Bind(stack_pop(m, cpu.registers.sp),
         LAMBDA ps :
             IF ~IsOk(ps.r) THEN Handled(ps.r, [cpu EXCEPT !.registers.sp = ps.sp], m)
             ELSE Bind(stack_pop_addr(m, ps.sp),
                       LAMBDA pa :
                           Handled(IF IsOk(pa.r) THEN Ok(0) ELSE pa.r,
                                   [cpu EXCEPT !.registers.p = ps.r.v,
                                               !.registers.sp = pa.sp,
                                               !.registers.pc = IF IsOk(pa.r) THEN pa.r.v ELSE @],
                                   m)))

\* rti_execute
rti_execute(cpu, instr, m) ==
    Bind(stack_pop(m, cpu.registers.sp),
         LAMBDA ps :
             IF ~IsOk(ps.r) THEN Handled(ps.r, [cpu EXCEPT !.registers.sp = ps.sp], m)
             ELSE Bind(stack_pop_addr(m, ps.sp),
                       LAMBDA pa :
                           Handled(IF IsOk(pa.r) THEN Ok(0) ELSE pa.r,
                                   [cpu EXCEPT !.registers.p =
                                                   BitOr(BitAnd(ps.r.v, 207), BitAnd(@, 48)),
                                               !.registers.sp = pa.sp,
                                               !.registers.pc = IF IsOk(pa.r) THEN pa.r.v ELSE @],
                                   m)))

\* jsr_execute: the address of the instruction's last byte is pushed
jsr_execute(cpu, instr, m) ==
    Bind(pc_minus(cpu.registers.pc, 1),
         LAMBDA ret :
             IF ~IsOk(ret) THEN Handled(ret, cpu, m)
             ELSE Bind(stack_push_addr(m, cpu.registers.sp, ret.v),
                       LAMBDA pa :
                           IF ~IsOk(pa.r)
                           THEN Handled(pa.r, [cpu EXCEPT !.registers.sp = pa.sp], pa.m)
                           ELSE Bind(load_operand(instr.addr_mode,
                                                  [cpu.registers EXCEPT !.sp = pa.sp], pa.m),
                                     LAMBDA dest :
                                         Handled(IF IsOk(dest) THEN Ok(0) ELSE dest,
                                                 [cpu EXCEPT !.registers.sp = pa.sp,
                                                             !.registers.pc =
                                                                 IF IsOk(dest) THEN dest.v ELSE @],
                                                 pa.m))))

\* rts_execute returning to the popped address itself
rts_execute_no_increment(cpu, instr, m) ==
    Bind(stack_pop_addr(m, cpu.registers.sp),
         LAMBDA pa :
             Handled(IF IsOk(pa.r) THEN Ok(0) ELSE pa.r,
                     [cpu EXCEPT !.registers.sp = pa.sp,
                                 !.registers.pc = IF IsOk(pa.r) THEN pa.r.v ELSE @],
                     m))

\* rts_execute: 1 + the popped address, a u16 sum
rts_execute(cpu, instr, m) ==
    Bind(stack_pop_addr(m, cpu.registers.sp),
         LAMBDA pa :
             IF ~IsOk(pa.r) THEN Handled(pa.r, [cpu EXCEPT !.registers.sp = pa.sp], m)
             ELSE Bind(pc_plus_one(pa.r.v),
                       LAMBDA pc :
                           Handled(IF IsOk(pc) THEN Ok(0) ELSE pc,
                                   [cpu EXCEPT !.registers.sp = pa.sp,
                                               !.registers.pc = IF IsOk(pc) THEN pc.v ELSE @],
                                   m)))

\* pha_execute
pha_execute(cpu, instr, m) ==
    Bind(stack_push(m, cpu.registers.sp, cpu.registers.a),
         LAMBDA ps : Handled(ps.r, [cpu EXCEPT !.registers.sp = ps.sp], ps.m))

\* php_execute: the status is pushed with bits 4 and 5 set
php_execute(cpu, instr, m) ==
    Bind(stack_push(m, cpu.registers.sp, BitOr(cpu.registers.p, 48)),
         LAMBDA ps : Handled(ps.r, [cpu EXCEPT !.registers.sp = ps.sp], ps.m))

\* pla_execute
pla_execute(cpu, instr, m) ==
    Bind(stack_pop(m, cpu.registers.sp),
         LAMBDA ps :
             IF ~IsOk(ps.r) THEN Handled(ps.r, [cpu EXCEPT !.registers.sp = ps.sp], m)
             ELSE Handled(Ok(0),
                          [cpu EXCEPT !.registers =
                              set_z(set_n([@ EXCEPT !.a = ps.r.v, !.sp = ps.sp], ps.r.v),
                                    ps.r.v)],
                          m))

\* plp_execute with the status taken whole from the stack
plp_execute_takes_all_bits(cpu, instr, m) ==
    Bind(stack_pop(m, cpu.registers.sp),
         LAMBDA ps :
             IF ~IsOk(ps.r) THEN Handled(ps.r, [cpu EXCEPT !.registers.sp = ps.sp], m)
             ELSE Handled(Ok(0),
                          [cpu EXCEPT !.registers.p = ps.r.v, !.registers.sp = ps.sp],
                          m))

\* plp_execute: bits 4 and 5 stay as they are in the register
plp_execute(cpu, instr, m) ==
    Bind(stack_pop(m, cpu.registers.sp),
         LAMBDA ps :
             IF ~IsOk(ps.r) THEN Handled(ps.r, [cpu EXCEPT !.registers.sp = ps.sp], m)
             ELSE Handled(Ok(0),
                          [cpu EXCEPT !.registers.p = BitOr(BitAnd(ps.r.v, 207), BitAnd(@, 48)),
                                      !.registers.sp = ps.sp],
                          m))

\* txs_execute
txs_execute(cpu, instr, m) ==
    Handled(Ok(0), [cpu EXCEPT !.registers.sp = cpu.registers.x], m)

\* String::to_lowercase on the mnemonics the handlers are named after
to_lowercase(name) ==
    CASE name = "ADC" -> "adc" [] name = "AND" -> "and" [] name = "ASL" -> "asl"
      [] name = "BCC" -> "bcc" [] name = "BCS" -> "bcs" [] name = "BEQ" -> "beq"
      [] name = "BMI" -> "bmi" [] name = "BNE" -> "bne" [] name = "BPL" -> "bpl"
      [] name = "BRK" -> "brk" [] name = "BVC" -> "bvc" [] name = "BVS" -> "bvs"
      [] name = "CMP" -> "cmp" [] name = "CPX" -> "cpx" [] name = "CPY" -> "cpy"
      [] name = "DCP" -> "dcp" [] name = "DEC" -> "dec" [] name = "EOR" -> "eor"
      [] name = "INC" -> "inc" [] name = "ISC" -> "isc" [] name = "JSR" -> "jsr"
      [] name = "LAX" -> "lax"
      [] name = "LDA" -> "lda" [] name = "LSR" -> "lsr" [] name = "NOP" -> "nop"
      [] name = "ORA" -> "ora" [] name = "PHA" -> "pha" [] name = "PHP" -> "php"
      [] name = "PLA" -> "pla" [] name = "PLP" -> "plp"
      [] name = "RLA" -> "rla" [] name = "ROL" -> "rol"
      [] name = "ROR" -> "ror" [] name = "RRA" -> "rra" [] name = "RTI" -> "rti"
      [] name = "RTS" -> "rts"
      [] name = "SBC" -> "sbc" [] name = "SLO" -> "slo" [] name = "SRE" -> "sre"
      [] name = "TXS" -> "txs"
      [] OTHER -> name

\* the function a jump-table arm calls: <name>_execute(self, &instr, mem)
execute(name, cpu, instr, m) ==
    CASE name = "adc" -> adc_execute(cpu, instr, m)
      [] name = "and" -> and_execute(cpu, instr, m)
      [] name = "asl" -> asl_execute(cpu, instr, m)
      [] name = "bcc" -> bcc_execute(cpu, instr, m)
      [] name = "bcs" -> bcs_execute(cpu, instr, m)
      [] name = "beq" -> beq_execute(cpu, instr, m)
      [] name = "bmi" -> bmi_execute(cpu, instr, m)
      [] name = "bne" -> bne_execute(cpu, instr, m)
      [] name = "bpl" -> bpl_execute(cpu, instr, m)
      [] name = "brk" -> brk_execute(cpu, instr, m)
      [] name = "bvc" -> bvc_execute(cpu, instr, m)
      [] name = "bvs" -> bvs_execute(cpu, instr, m)
      [] name = "cmp" -> cmp_execute(cpu, instr, m)
      [] name = "cpx" -> cpx_execute(cpu, instr, m)
      [] name = "cpy" -> cpy_execute(cpu, instr, m)
      [] name = "dcp" -> dcp_execute(cpu, instr, m)
      [] name = "dec" -> dec_execute(cpu, instr, m)
      [] name = "eor" -> eor_execute(cpu, instr, m)
      [] name = "inc" -> inc_execute(cpu, instr, m)
      [] name = "isc" -> isc_execute(cpu, instr, m)
      [] name = "jsr" -> jsr_execute(cpu, instr, m)
      [] name = "lax" -> lax_execute(cpu, instr, m)
      [] name = "lda" -> lda_execute(cpu, instr, m)
      [] name = "lsr" -> lsr_execute(cpu, instr, m)
      [] name = "nop" -> nop_execute(cpu, instr, m)
      [] name = "ora" -> ora_execute(cpu, instr, m)
      [] name = "pha" -> pha_execute(cpu, instr, m)
      [] name = "php" -> php_execute(cpu, instr, m)
      [] name = "pla" -> pla_execute(cpu, instr, m)
      [] name = "plp" -> plp_execute(cpu, instr, m)
      [] name = "rla" -> rla_execute(cpu, instr, m)
      [] name = "rol" -> rol_execute(cpu, instr, m)
      [] name = "ror" -> ror_execute(cpu, instr, m)
      [] name = "rra" -> rra_execute(cpu, instr, m)
      [] name = "rti" -> rti_execute(cpu, instr, m)
      [] name = "rts" -> rts_execute(cpu, instr, m)
      [] name = "sbc" -> sbc_execute(cpu, instr, m)
      [] name = "slo" -> slo_execute(cpu, instr, m)
      [] name = "sre" -> sre_execute(cpu, instr, m)
      [] name = "txs" -> txs_execute(cpu, instr, m)

\* the arms of the generated jump table, in the order build.rs writes them
jumptable_arms(leg, unoff) ==
    [i \in 1..Len(leg) |-> [opcode |-> leg[i].opcode, name |-> to_lowercase(leg[i].mnemonic)]]
        \o [i \in 1..Len(unoff) |->
               [opcode |-> unoff[i].opcode, name |-> to_lowercase(unoff[i].mnemonic)]]

\* the generated jump table with a wildcard arm that does nothing
instr_jumptable_ignores_unknown(leg, unoff, opcode, cpu, instr, m) ==
    LET arms == jumptable_arms(leg, unoff)
        hits == {i \in 1..Len(arms) : arms[i].opcode = opcode}
        arm == arms[CHOOSE i \in hits : \A j \in hits : i <= j]
    IN  IF hits = {} THEN [h |-> Handled(Ok(0), cpu, m), handler |-> "none"]
        ELSE [h |-> execute(arm.name, cpu, instr, m), handler |-> arm.name]

\* the generated jump table: the first arm whose pattern is the opcode runs
\* its handler, the wildcard arm is the IllegalInstruction error
instr_jumptable(leg, unoff, opcode, cpu, instr, m) ==
    LET arms == jumptable_arms(leg, unoff)
        hits == {i \in 1..Len(arms) : arms[i].opcode = opcode}
        arm == arms[CHOOSE i \in hits : \A j \in hits : i <= j]
    IN  IF hits = {} THEN [h |-> Handled(Err("IllegalInstruction"), cpu, m), handler |-> "none"]
        ELSE [h |-> execute(arm.name, cpu, instr, m), handler |-> arm.name]

\* Cpu::step: the result, the descriptor it carries when Ok, the handler the
\* jump table ran, and the Cpu and memory left behind
step(cpu, m, leg, unoff) ==
    Bind(MemLoad(m, cpu.registers.pc),
         LAMBDA opcode :
             IF ~IsOk(opcode)
             THEN [r |-> opcode, fetched |-> FALSE, opcode |-> 0, instr |-> illegal(0),
                   handler |-> "none", cpu |-> cpu, m |-> m]
             ELSE Bind(lookup(leg, unoff, opcode.v),
                       LAMBDA instr :
                           Bind(instr_jumptable(leg, unoff, opcode.v,
                                                [cpu EXCEPT
                                                    !.cycle = @ + instr.cycles,
                                                    !.registers.pc = (@ + instr.bytes) % U16],
                                                instr, m),
                                LAMBDA j :
                                    [r |-> IF IsOk(j.h.r) THEN Ok(0) ELSE j.h.r,
                                     fetched |-> TRUE, opcode |-> opcode.v, instr |-> instr,
                                     handler |-> j.handler, cpu |-> j.h.cpu, m |-> j.h.m])))

----------------------------------------------------------------------------
(* Harness state shared by the specifications below.                       *)

NoOp == [op |-> "none", mode |-> "none", addr |-> 0, val |-> 0,
         st |-> "none", out |-> 0, err |-> "", expect |-> -1]

NoHist == [sp0 |-> 0, shadow |-> <<>>, maxdepth |-> 0, kind |-> "none", operand |-> 0,
           at |-> 0]

\* how many stack operations a run applies
MaxStackOps == 8

\* stack pointers a run starts from: both ends and the default
StackStarts == {0, 1, 2, 4, 253, 254, 255}

\* bytes pushed
StackVals == {90, 165}

----------------------------------------------------------------------------
(* The stack specification: pushes and pops on one Memory, as test_stack,  *)
(* test_stack_overflow and test_stack_underflow apply them.                *)

InitStack ==
    /\ overflow_checks \in BOOLEAN
    /\ cycle = 0
    /\ legal = <<>>
    /\ unofficial = <<>>
    /\ mem = MemoryNew
    /\ bus = <<>>
    /\ \E s \in StackStarts : /\ regs = [RegistersNew EXCEPT !.sp = s]
                              /\ hist = [NoHist EXCEPT !.sp0 = s]
    /\ last = NoOp
    /\ nops = 0

\* mem.stack_push(&mut sp, v)
StackPush(v) ==
    /\ nops < MaxStackOps
    /\ LET r == stack_push(mem, regs.sp, v)
       IN  /\ mem' = r.m
           /\ regs' = [regs EXCEPT !.sp = r.sp]
           /\ last' = [NoOp EXCEPT !.op = "push", !.val = v, !.st = r.r.st,
                                   !.err = r.r.e]
           /\ hist' = IF IsOk(r.r)
                        THEN [hist EXCEPT !.shadow = Append(@, v),
                                          !.maxdepth = IF Len(hist.shadow) + 1 > @
                                                         THEN Len(hist.shadow) + 1
                                                         ELSE @]
                        ELSE hist
    /\ nops' = nops + 1
    /\ UNCHANGED <<overflow_checks, cycle, legal, unofficial, bus>>

\* mem.stack_pop(&mut sp); the harness expects the byte pushed last. A pop
\* with nothing of the harness's on the stack starts a new round at the
\* pointer it leaves.
StackPop ==
    /\ nops < MaxStackOps
    /\ LET r == stack_pop(mem, regs.sp)
           live == hist.shadow # <<>>
       IN  /\ mem' = r.m
           /\ regs' = [regs EXCEPT !.sp = r.sp]
           /\ last' = [NoOp EXCEPT !.op = "pop", !.st = r.r.st, !.out = r.r.v,
                                   !.err = r.r.e,
                                   !.expect = IF live
                                                THEN hist.shadow[Len(hist.shadow)]
                                                ELSE -1]
           /\ hist' = IF ~IsOk(r.r) THEN hist
                      ELSE IF live
                        THEN [hist EXCEPT !.shadow = SubSeq(@, 1, Len(@) - 1)]
                        ELSE [NoHist EXCEPT !.sp0 = r.sp]
    /\ nops' = nops + 1
    /\ UNCHANGED <<overflow_checks, cycle, legal, unofficial, bus>>

NextStack == (\E v \in StackVals : StackPush(v)) \/ StackPop

SpecStack == InitStack /\ [][NextStack]_vars


\* C3: Stack LIFO round-trip. From any starting stack pointer sp0, after n
\* successful pushes the pointer is sp0 - n (strictly below sp0 while
\* anything is on the stack), every pop returns the byte pushed last and not
\* yet popped, and once all n are popped the pointer is sp0 again.
C3_StackRoundTrip ==
    /\ regs.sp = hist.sp0 - Len(hist.shadow)
    /\ (hist.shadow # <<>> => regs.sp < hist.sp0)
    /\ (last.op = "pop" /\ last.st = "ok" /\ last.expect >= 0
            => last.out = last.expect)

\* four bytes pushed, then all four popped in reverse order
C3_Witness ==
    /\ hist.maxdepth = 4 /\ nops = 8 /\ hist.shadow = <<>>
    /\ last.op = "pop" /\ last.st = "ok" /\ last.out = last.expect
    /\ regs.sp = hist.sp0

\* C4: stack_push at stack pointer 0 returns the MemoryError "Stack
\* Overflow" and stack_pop at stack pointer 0xFF returns the MemoryError
\* "Stack Underflow"; both leave the stack pointer and all memory unchanged.
C4_StackFaults ==
    [][/\ (last'.op = "push" /\ regs.sp = 0)
            => /\ last'.st = "err" /\ last'.err = "Stack Overflow"
               /\ regs'.sp = 0 /\ mem' = mem
       /\ (last'.op = "pop" /\ regs.sp = 255)
            => /\ last'.st = "err" /\ last'.err = "Stack Underflow"
               /\ regs'.sp = 255 /\ mem' = mem]_vars

\* a push refused at pointer 0 with bytes already on the stack
C4_Witness ==
    /\ last.op = "push" /\ last.err = "Stack Overflow" /\ regs.sp = 0
    /\ Len(hist.shadow) = 2 /\ mem.ram # ZeroArr

\* a pop refused at pointer 0xFF
C4_WitnessUnderflow ==
    last.op = "pop" /\ last.err = "Stack Underflow" /\ regs.sp = 255

----------------------------------------------------------------------------
(* The addressing specification: registers and memory are set up as the    *)
(* tests of cpu/addressing.rs set them up (the operand stored just below   *)
(* PC with cpu_store or cpu_store16), then operands are resolved.          *)

\* program counters: the tests' values, the first two addresses, the last
\* address, and one whose operand word starts on the last byte of a RAM page
AddrPCs == {0, 1, 257, 20481, 49157, 50176, 50988, 53253, 65535}

\* x, y, a
AddrXYA == {<<0, 0, 0>>, <<5, 255, 128>>, <<255, 5, 255>>, <<5, 15, 1>>}

\* one-byte operands (zero-page addresses, displacements)
AddrBytes == {0, 3, 62, 76, 127, 128, 192, 224, 250, 255}

\* two-byte operands (absolute addresses, pointers)
AddrWords == {255, 767, 8191, 16415, 20480, 32767, 33023, 49152, 53599, 65535}

\* addresses whose cells hold a known non-zero pattern before the operand is
\* stored: page zero, and around every pointer in AddrWords
BgCells ==
    (0 .. 255) \cup
    UNION {{w, (w + 1) % U16, w - (w % 256)} : w \in AddrWords}

BgByte(off) == (off * 7 + (off \div 256) * 3 + 1) % 256

BgArr(dev) ==
    LET offs == {translate_addr(a).off : a \in {c \in BgCells : translate_addr(c).dev = dev}}
    IN  [i \in {o \in offs : BgByte(o) # 0} |-> BgByte(i)]

BgMem ==
    [ram |-> BgArr("ram"), ppu_reg |-> BgArr("ppu_reg"), other_reg |-> BgArr("other_reg"),
     rom_batt |-> BgArr("rom_batt"), rom_prog |-> BgArr("rom_prog")]

InitAddr ==
    /\ overflow_checks \in BOOLEAN
    /\ cycle = 0
    /\ legal = <<>>
    /\ unofficial = <<>>
    /\ bus = <<>>
    /\ \E pc \in AddrPCs, r \in AddrXYA :
          regs = [RegistersNew EXCEPT !.pc = pc, !.x = r[1], !.y = r[2], !.a = r[3]]
    /\ \/ \E b \in AddrBytes :
             /\ mem = MemStore(BgMem, (regs.pc + U16 - 1) % U16, b).m
             /\ hist = [NoHist EXCEPT !.kind = "byte", !.operand = b]
       \/ \E w \in AddrWords :
             /\ mem = MemStore16(BgMem, (regs.pc + U16 - 2) % U16, w).m
             /\ hist = [NoHist EXCEPT !.kind = "word", !.operand = w]
    /\ last = NoOp
    /\ nops = 0

\* mode.load_operand(&r, &mut bus)
Resolve(mode) ==
    /\ LET r == load_operand(mode, regs, mem)
       IN  last' = [NoOp EXCEPT !.op = "resolve", !.mode = mode, !.st = r.st,
                                !.out = r.v, !.err = r.e]
    /\ UNCHANGED <<overflow_checks, cycle, legal, unofficial, mem, bus, regs, hist, nops>>

\* mem.load16(a)
Load16(a) ==
    /\ LET r == MemLoad16(mem, a)
       IN  last' = [NoOp EXCEPT !.op = "load16", !.addr = a, !.st = r.st,
                                !.out = r.v, !.err = r.e]
    /\ UNCHANGED <<overflow_checks, cycle, legal, unofficial, mem, bus, regs, hist, nops>>

NextAddr ==
    \/ \E mode \in AddressingModes : Resolve(mode)
    \/ \E a \in AddrWords : Load16(a)

SpecAddr == InitAddr /\ [][NextAddr]_vars

\* the cell a CPU address selects, as Memory lays the address space out
Cell(a) == MemLoad(mem, a).v

\* the address a 16-bit access reads its low byte from: the probed address
\* for load16, the operand word for Indirect
C6_Addr == IF last.op = "load16" THEN last.addr ELSE hist.operand

C6_Applies ==
    /\ last.st = "ok"
    /\ \/ last.op = "load16"
       \/ last.op = "resolve" /\ last.mode = "Indirect" /\ hist.kind = "word"
    /\ C6_Addr % 256 = 255

\* C6 as claimed: for every address a ending in 0xFF, in any page, load16(a)
\* and Indirect read the low byte at a and the high byte at a & 0xFF00.
C6_WrapInEveryPage ==
    C6_Applies => last.out = Cell(C6_Addr) + 256 * Cell(C6_Addr - 255)

\* C6 amended: for every address a ending in 0xFF, load16(a) and Indirect
\* read the low byte at a; the high byte comes from a & 0xFF00 when a is in
\* the RAM region 0x0000-0x1FFF and from a + 1 (mod 2^16) everywhere else.
C6_WrapInRamOnly ==
    C6_Applies =>
        last.out = Cell(C6_Addr) + 256 * (IF C6_Addr <= 8191
                                            THEN Cell(C6_Addr - 255)
                                            ELSE Cell((C6_Addr + 1) % 65536))

\* Indirect through a pointer on the last byte of a RAM page, where the two
\* candidate high bytes differ
C6_Witness ==
    /\ C6_Applies /\ last.op = "resolve" /\ C6_Addr = 767
    /\ Cell(768) # Cell(512)
    /\ last.out = Cell(767) + 256 * Cell(512)

C8_ZeroPage ==
    (last.op = "resolve" /\ last.st = "ok" /\ hist.kind = "byte") =>
        /\ last.mode = "ZeroPage" => last.out = hist.operand
        /\ last.mode = "ZeroPageX" => last.out = (hist.operand + regs.x) % 256
        /\ last.mode = "ZeroPageY" => last.out = (hist.operand + regs.y) % 256
        /\ last.mode \in {"ZeroPage", "ZeroPageX", "ZeroPageY"} => last.out \in 0 .. 255

\* $FA,X with X = 255 wraps to $F9
C8_Witness ==
    /\ last.op = "resolve" /\ last.st = "ok" /\ last.mode = "ZeroPageX"
    /\ hist.kind = "byte" /\ hist.operand = 250 /\ regs.x = 255
    /\ last.out = 249

\* C9: with the byte b stored at PC-1, Relative resolves to PC + b for b in
\* 0x00..0x7F and to PC - (256 - b) for b in 0x80..0xFF, modulo 2^16.
C9_Relative ==
    (last.op = "resolve" /\ last.st = "ok" /\ last.mode = "Relative"
        /\ hist.kind = "byte") =>
        last.out = IF hist.operand <= 127
                     THEN (regs.pc + hist.operand) % 65536
                     ELSE (regs.pc + 65536 - (256 - hist.operand)) % 65536

\* displacement 0xE0 at PC = 0xC72C resolves to 0xC70C
C9_Witness ==
    /\ last.op = "resolve" /\ last.st = "ok" /\ last.mode = "Relative"
    /\ hist.kind = "byte" /\ hist.operand = 224 /\ regs.pc = 50988
    /\ last.out = 50956

\* C10: with the byte b stored at PC-1, IndirectX resolves to the
\* little-endian word whose low byte is the page-zero cell (b + X) mod 256 and
\* whose high byte is the page-zero cell after it (the cell after 0xFF being
\* 0x00): the pointer never leaves page 0.
C10_IndirectX ==
    (last.op = "resolve" /\ last.st = "ok" /\ last.mode = "IndirectX"
        /\ hist.kind = "byte") =>
        LET p == (hist.operand + regs.x) % 256
        IN  last.out = ArrGet(mem.ram, p) + 256 * ArrGet(mem.ram, (p + 1) % 256)

\* ($FA,X) with X = 5 reads its pointer at 0xFF and 0x00
C10_Witness ==
    /\ last.op = "resolve" /\ last.st = "ok" /\ last.mode = "IndirectX"
    /\ hist.kind = "byte" /\ hist.operand = 250 /\ regs.x = 5
    /\ last.out = ArrGet(mem.ram, 255) + 256 * ArrGet(mem.ram, 0)
    /\ ArrGet(mem.ram, 0) # ArrGet(mem.ram, 256)

\* C11: with the byte b stored at PC-1, IndirectY resolves to (w + Y) mod
\* 2^16, where w is the little-endian word whose low byte is the page-zero
\* cell b and whose high byte is the page-zero cell after it: Y is added to
\* the word loaded, not to b, and the sum may leave the page of w.
C11_IndirectY ==
    (last.op = "resolve" /\ last.st = "ok" /\ last.mode = "IndirectY"
        /\ hist.kind = "byte") =>
        LET b == hist.operand
            w == ArrGet(mem.ram, b) + 256 * ArrGet(mem.ram, (b + 1) % 256)
        IN  last.out = (w + regs.y) % 65536

\* ($FA),Y with Y = 0xFF: the pointer at 0xFA holds 0xDED7 and the sum
\* 0xDFD6 is in the next page
C11_Witness ==
    /\ last.op = "resolve" /\ last.st = "ok" /\ last.mode = "IndirectY"
    /\ hist.kind = "byte" /\ hist.operand = 250 /\ regs.y = 255
    /\ ArrGet(mem.ram, 250) + 256 * ArrGet(mem.ram, 251) = 57047
    /\ last.out = 57302
    /\ last.out \div 256 # 57047 \div 256

\* C12: resolving Implied, Illegal or Unknown returns the IllegalInstruction
\* error whatever the registers and the memory hold, also where a load of
\* the operand would fail (PC-1 unmapped) or PC-1 would underflow.
C12_NoOperand ==
    (last.op = "resolve" /\ last.mode \in {"Implied", "Illegal", "Unknown"}) =>
        /\ last.st = "err"
        /\ last.err = "IllegalInstruction"

\* Unknown resolved at PC = 0 in a build that checks overflow
C12_Witness ==
    /\ last.op = "resolve" /\ last.mode = "Unknown" /\ regs.pc = 0 /\ overflow_checks
    /\ last.st = "err" /\ last.err = "IllegalInstruction"

----------------------------------------------------------------------------
(* The memory specification: 8- and 16-bit stores and loads on one Memory. *)

\* how many stores a run applies
MaxMemStores == 2

\* addresses accessed: inside RAM, the last byte of a RAM page (0x00FF,
\* 0x1FFF), the last PPU register and mirror (0x2007, 0x3FFF), the last
\* register (0x401F, high byte unmapped), an unmapped address (0x5000), the
\* last byte of a ROM page (0x80FF) and the top of the address space
MemAddrs == {16, 255, 8191, 8199, 16383, 16415, 20480, 33023, 65535}

\* words stored: distinct bytes, and bytes that are 0xFF and 0x00
MemWords == {4660, 65280}

\* bytes stored by the 8-bit store
MemBytes == {90}

\* whether an address selects a cell
Mapped(a) == translate_addr(a).dev # "ILLEGAL"

InitMem ==
    /\ overflow_checks = FALSE
    /\ cycle = 0
    /\ legal = <<>>
    /\ unofficial = <<>>
    /\ mem = MemoryNew
    /\ bus = <<>>
    /\ regs = RegistersNew
    /\ last = NoOp
    /\ hist = NoHist
    /\ nops = 0

\* mem.store(a, v)
Store(a, v) ==
    /\ nops < MaxMemStores
    /\ LET r == MemStore(mem, a, v)
       IN  /\ mem' = r.m
           /\ last' = [NoOp EXCEPT !.op = "store", !.addr = a, !.val = v,
                                   !.st = r.r.st, !.err = r.r.e]
    /\ hist' = NoHist
    /\ nops' = nops + 1
    /\ UNCHANGED <<overflow_checks, cycle, legal, unofficial, bus, regs>>

\* mem.store16(a, w); the harness remembers the last word stored and where
Store16(a, w) ==
    /\ nops < MaxMemStores
    /\ LET r == MemStore16(mem, a, w)
       IN  /\ mem' = r.m
           /\ last' = [NoOp EXCEPT !.op = "store16", !.addr = a, !.val = w,
                                   !.st = r.r.st, !.err = r.r.e]
           /\ hist' = IF IsOk(r.r)
                        THEN [NoHist EXCEPT !.kind = "store16", !.operand = w, !.at = a]
                        ELSE NoHist
    /\ nops' = nops + 1
    /\ UNCHANGED <<overflow_checks, cycle, legal, unofficial, bus, regs>>

\* mem.load(a)
Load(a) ==
    /\ LET r == MemLoad(mem, a)
       IN  last' = [NoOp EXCEPT !.op = "load", !.addr = a, !.st = r.st,
                                !.out = r.v, !.err = r.e]
    /\ UNCHANGED <<overflow_checks, cycle, legal, unofficial, mem, bus, regs, hist, nops>>

NextMem ==
    \/ \E a \in MemAddrs, v \in MemBytes : Store(a, v)
    \/ \E a \in MemAddrs, w \in MemWords : Store16(a, w)
    \/ \E a \in MemAddrs : Load(a)
    \/ \E a \in MemAddrs : Load16(a)

SpecMem == InitMem /\ [][NextMem]_vars

\* C5: 16-bit round trip. store16(a, w) succeeds at every address whose two
\* byte accesses are both mapped, and a load16(a) that follows it, with no
\* store in between, returns w; this includes addresses whose low byte is
\* 0xFF inside RAM, where the two bytes land on different cells.
C5_RoundTrip16 ==
    /\ (last.op = "store16" /\ Mapped(last.addr) /\ Mapped(get_high_addr(last.addr)))
          => last.st = "ok"
    /\ (last.op = "load16" /\ hist.kind = "store16" /\ hist.at = last.addr)
          => /\ last.st = "ok"
             /\ last.out = hist.operand
             /\ translate_addr(last.addr) # translate_addr(get_high_addr(last.addr))

\* C5 witness: 0x1234 stored at 0x1FFF after another store, and read back
\* from there; its high byte sits at RAM offset 0x700
C5_Witness ==
    /\ last.op = "load16" /\ last.addr = 8191 /\ last.st = "ok"
    /\ hist.kind = "store16" /\ hist.at = 8191 /\ hist.operand = 4660
    /\ nops = 2
    /\ last.out = 4660
    /\ ArrGet(mem.ram, 1792) = 18

----------------------------------------------------------------------------
(* The bus specification: CPU-side stores and loads on one Bus, built as   *)
(* the bus tests build it (make_bus) or as IronNes::new builds it.          *)

\* how many stores a run applies
MaxBusStores == 2

\* RAM offsets stored to and probed: the first, 0x13 (from the test) and the last
BusRamOffsets == {0, 19, 2047}

\* the four mirrors of each offset
BusRamAddrs == {o + k * CPU_ZEROPAGE_SIZE : o \in BusRamOffsets, k \in 0..3}

\* addresses outside RAM: PPUCTRL, OAMADDR and a mirror of each, the first
\* I/O register, OAM DMA, the register after it, both joysticks, two
\* addresses nothing is mapped at, both ends of the lower cartridge bank and
\* the top of the upper one
BusOtherAddrs ==
    {8192, 8195, 8200, 16379, 16384, 16404, 16405, 16406, 16407, 16408, 20480, 32768,
     49151, 65535}

\* offsets a RAM block of length NUM_JOYSTICK is asked for directly: its
\* last cell, its length, and beyond
BusDevOffsets == {NUM_JOYSTICK - 1, NUM_JOYSTICK, NUM_JOYSTICK + 1}

\* bytes stored
BusVals == {66, 190}

\* the (address, byte) pairs stored
BusStores == (BusRamAddrs \X BusVals) \cup (BusOtherAddrs \X {66})

InitBus ==
    /\ overflow_checks = FALSE
    /\ cycle = 0
    /\ legal = <<>>
    /\ unofficial = <<>>
    /\ mem = MemoryNew
    /\ bus \in {BusNew(RamNew(0), RamNew(8), VecZero(PAGE_SIZE), VecZero(PAGE_SIZE)),
                BusNew(RamNew(4096), PpuRegistersNew, VecZero(2 * PAGE_SIZE),
                       VecZero(8192))}
    /\ regs = RegistersNew
    /\ last = NoOp
    /\ hist = NoHist
    /\ nops = 0

\* bus.cpu_store(a, v); the harness remembers where the last store went
CpuStore(a, v) ==
    /\ nops < MaxBusStores
    /\ last.st # "panic"
    /\ \E r \in {cpu_store(bus, a, v)} :
           /\ bus' = r.b
           /\ last' = [NoOp EXCEPT !.op = "cpu_store", !.addr = a, !.val = v,
                                   !.st = r.r.st, !.err = r.r.e]
    /\ hist' = [NoHist EXCEPT !.kind = "cpu_store", !.operand = v, !.at = a]
    /\ nops' = nops + 1
    /\ UNCHANGED <<overflow_checks, cycle, legal, unofficial, mem, regs>>

\* bus.cpu_load(a)
CpuLoad(a) ==
    /\ last.st # "panic"
    /\ \E r \in {cpu_load(bus, a)} :
           /\ bus' = r.b
           /\ last' = [NoOp EXCEPT !.op = "cpu_load", !.addr = a, !.st = r.r.st,
                                   !.out = r.r.v, !.err = r.r.e]
    /\ UNCHANGED <<overflow_checks, cycle, legal, unofficial, mem, regs, hist, nops>>

\* MemoryMappedRam::load(off), on the block behind the joystick ports
RamBlockLoad(off) ==
    /\ last.st # "panic"
    /\ \E r \in {RamLoad(bus.joystick, off)} :
           /\ bus' = [bus EXCEPT !.joystick = r.d]
           /\ last' = [NoOp EXCEPT !.op = "ram_load", !.addr = off, !.st = r.r.st,
                                   !.out = r.r.v, !.err = r.r.e]
    /\ UNCHANGED <<overflow_checks, cycle, legal, unofficial, mem, regs, hist, nops>>

\* MemoryMappedRam::store(off, v), on the same block
RamBlockStore(off, v) ==
    /\ nops < MaxBusStores
    /\ last.st # "panic"
    /\ \E r \in {RamStore(bus.joystick, off, v)} :
           /\ bus' = [bus EXCEPT !.joystick = r.d]
           /\ last' = [NoOp EXCEPT !.op = "ram_store", !.addr = off, !.val = v,
                                   !.st = r.r.st, !.err = r.r.e]
    /\ hist' = [NoHist EXCEPT !.kind = "ram_store", !.operand = v, !.at = off]
    /\ nops' = nops + 1
    /\ UNCHANGED <<overflow_checks, cycle, legal, unofficial, mem, regs>>

NextBus ==
    \/ \E s \in BusStores : CpuStore(s[1], s[2])
    \/ \E a \in BusRamAddrs \cup BusOtherAddrs : CpuLoad(a)
    \/ \E off \in BusDevOffsets : RamBlockLoad(off)
    \/ \E off \in BusDevOffsets : RamBlockStore(off, 66)

SpecBus == InitBus /\ [][NextBus]_vars

\* C2: RAM mirroring. A store of v to a RAM address succeeds; after it a
\* load from each of the four mirrors of that address returns v, and a load
\* from any other RAM offset returns what it returned before the store.
\* Memory::translate_addr selects the same RAM offset as the bus does. A
\* load, and a store outside RAM, change what no RAM address reads.
C2_RamMirroring ==
    [][/\ (last'.op = "cpu_store" /\ last'.addr <= 8191) =>
            /\ last'.st = "ok"
            /\ \A q \in BusRamAddrs :
                  cpu_load(bus', q).r =
                      IF q % CPU_ZEROPAGE_SIZE = last'.addr % CPU_ZEROPAGE_SIZE
                          THEN Ok(last'.val)
                          ELSE cpu_load(bus, q).r
            /\ translate_addr(last'.addr) =
                  [dev |-> "ram", off |-> cpu_map(bus, last'.addr).r.v]
       /\ (last'.op = "cpu_load" \/ (last'.op = "cpu_store" /\ last'.addr > 8191)) =>
            \A q \in BusRamAddrs : cpu_load(bus', q).r = cpu_load(bus, q).r]_vars

\* C2 witness: 0xBE stored through the second mirror of 0x13 after a store
\* of 0x42 to 0x7FF, and read back through the fourth mirror while 0x7FF
\* still reads 0x42
C2_Witness ==
    /\ last.op = "cpu_load" /\ last.addr = 6163 /\ last.st = "ok" /\ last.out = 190
    /\ hist.kind = "cpu_store" /\ hist.at = 2067 /\ hist.operand = 190
    /\ nops = 2
    /\ cpu_load(bus, 19).r = Ok(190)
    /\ cpu_load(bus, 2047).r = Ok(66)

\* is the last operation a load or a store through the bus
ViaBus == last.op \in {"cpu_load", "cpu_store"}

\* the PPU registers a load can read and a store can write, as offsets into
\* the eight-register window
PpuReadable == {0, 1, 2, 3, 7}
PpuWritable == {0, 1, 3, 4, 5, 6, 7}

\* C14: a load or a store at an address in 0x2000..0x3FFF is forwarded to
\* the PPU register at offset (address mod 8), the same one for the address
\* and for each of its mirrors, and succeeds when that register is
\* implemented for the access; a byte stored at 0x2000 is what a load at
\* 0x2008 returns next.
C14_PpuRegisterMirrors ==
    (ViaBus /\ last.addr >= 8192 /\ last.addr <= 16383) =>
        /\ cpu_map(bus, last.addr) = cpu_map(bus, 8192 + (last.addr % 8))
        /\ (\/ bus.ppu_reg.kind = "ram"
            \/ last.op = "cpu_load" /\ last.addr % 8 \in PpuReadable
            \/ last.op = "cpu_store" /\ last.addr % 8 \in PpuWritable) => last.st = "ok"
        /\ (last.op = "cpu_store" /\ last.addr = 8192) =>
               cpu_load(bus, 8200).r =
                   IF bus.ppu_reg.kind = "ram" THEN Ok(last.val)
                   ELSE Ok(sanitize(bus.ppu_reg.ppuctrl, last.val))

\* C15: a load or a store at an address a in 0x4000..0x4017 succeeds and is
\* routed to offset a - 0x4000 of one device, so that no two of the 24
\* addresses reach the same cell.
C15_IoRegisters ==
    (ViaBus /\ last.addr >= 16384 /\ last.addr <= 16407) =>
        /\ last.st = "ok"
        /\ cpu_map(bus, last.addr).r = Ok(last.addr - 16384)
        /\ \A a \in 16384..16407 :
              a # last.addr => cpu_map(bus, a) # cpu_map(bus, last.addr)

\* C16: a load or a store at an address no range covers returns the
\* unmapped-address memory error; with a one-bank cartridge and no mapper a
\* load or a store in 0x8000..0xBFFF returns the no-mapper memory error, a
\* different one; neither changes any device.
C16_UnmappedAndNoMapper ==
    [][(last'.op \in {"cpu_load", "cpu_store"}) =>
          /\ (last'.addr >= 16408 /\ last'.addr <= 32767) =>
                /\ last'.st = "err" /\ last'.err = "Memory access to unmapped vrom"
                /\ bus' = bus
          /\ (/\ last'.addr >= 32768 /\ last'.addr <= 49151
              /\ bus.cartridge_rom_offset = 49152
              /\ bus.cartridge_mapper = NoDevice) =>
                /\ last'.st = "err" /\ last'.err = "No mapper inserted"
                /\ last'.err # "Memory access to unmapped vrom"
                /\ bus' = bus]_vars

\* C16 witness: on the one-bank bus a store to RAM succeeded, then a store
\* to 0xBFFF came back with the no-mapper error
C16_Witness ==
    /\ last.op = "cpu_store" /\ last.addr = 49151
    /\ bus.cartridge_rom_offset = 49152 /\ bus.cartridge_mapper = NoDevice
    /\ last.st = "err" /\ last.err = "No mapper inserted"
    /\ nops = 2 /\ cpu_load(bus, 19).r = Ok(190)

\* C17: a load or a store on a RAM block at an offset that is not an index
\* of the block (the block's length included) returns a memory error: it
\* does not panic.
C17_OffsetOutOfRange ==
    (last.op \in {"ram_load", "ram_store"} /\ last.addr >= bus.joystick.len) =>
        last.st = "err"

\* the device a store went to and the offset in it
Target == cpu_map(bus, last.addr)

\* C34: a successful store through the bus changes one cell of one device.
\* The address translates to one (device, offset) pair; after the store that
\* cell holds the byte, every other cell of the device and every other
\* device is as before, and a load at any address that translates to another
\* pair returns what it returned before.
C34_SingleCell ==
    [][(last'.op = "cpu_store" /\ last'.st = "ok") =>
          LET t == cpu_map(bus, last'.addr)
          IN  /\ IsOk(t.r)
              /\ cpu_map(bus', last'.addr) = t
              /\ \A d \in DOMAIN bus \ {t.dev} : bus'[d] = bus[d]
              /\ bus[t.dev].kind = "ram" =>
                    /\ bus'[t.dev].kind = "ram" /\ bus'[t.dev].len = bus[t.dev].len
                    /\ ArrGet(bus'[t.dev].data, t.r.v) = last'.val
                    /\ \A o \in (DOMAIN bus[t.dev].data \cup DOMAIN bus'[t.dev].data)
                                  \ {t.r.v} :
                          ArrGet(bus'[t.dev].data, o) = ArrGet(bus[t.dev].data, o)
              /\ \A q \in BusRamAddrs \cup BusOtherAddrs :
                    cpu_map(bus, q) # t => cpu_load(bus', q).r = cpu_load(bus, q).r]_vars

\* C34 witness: after 0xBE went to RAM offset 0x13, a store to the second
\* joystick port succeeded; the port holds the byte, the first port and the
\* RAM cell are as they were
C34_Witness ==
    /\ last.op = "cpu_store" /\ last.st = "ok" /\ last.addr = 16407 /\ nops = 2
    /\ Target = [r |-> Ok(1), dev |-> "joystick"]
    /\ bus.joystick.data = (1 :> 66)
    /\ bus.cpu_zeropage.data = (19 :> 190)

\* C34 witness: a store to a register of the eight-byte block the bus tests
\* put behind 0x2000..0x3FFF, through a mirror
C34_WitnessRegisterBlock ==
    /\ last.op = "cpu_store" /\ last.st = "ok" /\ last.addr = 16379
    /\ Target = [r |-> Ok(3), dev |-> "ppu_reg"]
    /\ bus.ppu_reg.data = (3 :> 66)

----------------------------------------------------------------------------
(* The lookup specification: the two tables are whatever the CSV files     *)
(* hold, and any opcode is looked up.                                      *)

\* how many records each table holds at most
MaxRows == 2

\* records the legal table is drawn from
LegalRows ==
    {[opcode |-> 0, mnemonic |-> "BRK", mode |-> "IMP", bytes |-> 1, cycles |-> 7,
      cross |-> FALSE],
     [opcode |-> 189, mnemonic |-> "LDA", mode |-> "ABSX", bytes |-> 3, cycles |-> 4,
      cross |-> TRUE]}

\* records the unofficial table is drawn from: one opcode of its own, one
\* the legal table may hold as well
UnofficialRows ==
    {[opcode |-> 255, mnemonic |-> "ISB", mode |-> "ABSX", bytes |-> 3, cycles |-> 7,
      cross |-> FALSE],
     [opcode |-> 189, mnemonic |-> "LAX", mode |-> "ABSY", bytes |-> 3, cycles |-> 4,
      cross |-> TRUE]}

\* the sequences over S of length at most n
SeqsUpTo(S, n) == UNION {[1..k -> S] : k \in 0..n}

InitLookup ==
    /\ overflow_checks = FALSE
    /\ cycle = 0
    /\ legal \in SeqsUpTo(LegalRows, MaxRows)
    /\ unofficial \in SeqsUpTo(UnofficialRows, MaxRows)
    /\ mem = MemoryNew
    /\ bus = <<>>
    /\ regs = RegistersNew
    /\ last = NoOp
    /\ hist = NoHist
    /\ nops = 0

\* Instruction::lookup(opcode)
Lookup(opcode) ==
    /\ last' = [op |-> "lookup", opcode |-> opcode,
                instr |-> lookup(legal, unofficial, opcode)]
    /\ UNCHANGED <<overflow_checks, cycle, legal, unofficial, mem, bus, regs, hist, nops>>

NextLookup == \E opcode \in 0..255 : Lookup(opcode)

SpecLookup == InitLookup /\ [][NextLookup]_vars

\* the opcodes a table holds
Opcodes(table) == {table[i].opcode : i \in 1..Len(table)}

\* C1: lookup is total. Every opcode 0..255 gets a descriptor, and an opcode
\* in neither table gets the Illegal one: bytes 1, cycles 0, no page-cross
\* penalty, mode Illegal, and the queried opcode in the opcode field.
C1_LookupTotal ==
    last.op = "lookup" =>
        /\ DOMAIN last.instr =
              {"opcode", "mnemonic", "bytes", "cycles", "can_cross_page", "addr_mode"}
        /\ last.opcode \notin Opcodes(legal) \cup Opcodes(unofficial) =>
              /\ last.instr.bytes = 1
              /\ last.instr.cycles = 0
              /\ last.instr.can_cross_page = FALSE
              /\ last.instr.addr_mode = "Illegal"
              /\ last.instr.opcode = last.opcode

\* C1 witness: with both tables populated, opcode 0x02 is in neither and
\* gets the Illegal descriptor
C1_Witness ==
    /\ last.op = "lookup" /\ last.opcode = 2
    /\ Len(legal) = 2 /\ Len(unofficial) = 2
    /\ 2 \notin Opcodes(legal) \cup Opcodes(unofficial)
    /\ last.instr = illegal(2)

----------------------------------------------------------------------------
(* The CPU stepping through a program: an instruction is stored at PC, the *)
(* registers are set, and Cpu::step runs.                                  *)

\* how many instructions a run steps through
MaxSteps == 2

\* rows of 6502ops.csv: opcode, mnemonic, mode, bytes, cycles ("n/m" read as
\* cycles n with the page-cross flag set)
CpuLegalRows ==
    <<[opcode |-> 105, mnemonic |-> "ADC", mode |-> "IMM", bytes |-> 2, cycles |-> 2, cross |-> FALSE],
      [opcode |-> 101, mnemonic |-> "ADC", mode |-> "ZP", bytes |-> 2, cycles |-> 3, cross |-> FALSE],
      [opcode |-> 125, mnemonic |-> "ADC", mode |-> "ABSX", bytes |-> 3, cycles |-> 4, cross |-> TRUE],
      [opcode |-> 113, mnemonic |-> "ADC", mode |-> "INDY", bytes |-> 2, cycles |-> 5, cross |-> TRUE],
      [opcode |-> 173, mnemonic |-> "LDA", mode |-> "ABS", bytes |-> 3, cycles |-> 4, cross |-> FALSE],
      [opcode |-> 185, mnemonic |-> "LDA", mode |-> "ABSY", bytes |-> 3, cycles |-> 4, cross |-> TRUE],
      [opcode |-> 254, mnemonic |-> "INC", mode |-> "ABSX", bytes |-> 3, cycles |-> 7, cross |-> FALSE],
      [opcode |-> 234, mnemonic |-> "NOP", mode |-> "IMP", bytes |-> 1, cycles |-> 2, cross |-> FALSE],
      [opcode |-> 16, mnemonic |-> "BPL", mode |-> "REL", bytes |-> 2, cycles |-> 2, cross |-> TRUE],
      [opcode |-> 48, mnemonic |-> "BMI", mode |-> "REL", bytes |-> 2, cycles |-> 2, cross |-> TRUE],
      [opcode |-> 80, mnemonic |-> "BVC", mode |-> "REL", bytes |-> 2, cycles |-> 2, cross |-> TRUE],
      [opcode |-> 112, mnemonic |-> "BVS", mode |-> "REL", bytes |-> 2, cycles |-> 2, cross |-> TRUE],
      [opcode |-> 144, mnemonic |-> "BCC", mode |-> "REL", bytes |-> 2, cycles |-> 2, cross |-> TRUE],
      [opcode |-> 176, mnemonic |-> "BCS", mode |-> "REL", bytes |-> 2, cycles |-> 2, cross |-> TRUE],
      [opcode |-> 208, mnemonic |-> "BNE", mode |-> "REL", bytes |-> 2, cycles |-> 2, cross |-> TRUE],
      [opcode |-> 240, mnemonic |-> "BEQ", mode |-> "REL", bytes |-> 2, cycles |-> 2, cross |-> TRUE]>>

\* rows of unofficial.csv
CpuUnofficialRows ==
    <<[opcode |-> 28, mnemonic |-> "NOP", mode |-> "ABSX", bytes |-> 3, cycles |-> 4, cross |-> TRUE]>>

\* an opcode neither table holds
CpuUnknownOpcode == 2

\* the opcodes stored at PC
CpuOpcodes == Opcodes(CpuLegalRows) \cup Opcodes(CpuUnofficialRows) \cup {CpuUnknownOpcode}

\* where the instruction sits: in RAM, in RAM with its last byte ending a
\* page, at an address no device backs, and at the top of the address space
CpuPCs == {512, 765, 20480, 65534}

\* the two bytes after the opcode, as a little-endian word
CpuOperands == {512, 513, 517, 639, 640, 752, 765, 767}

\* a
CpuA == {0, 127, 128, 255}

\* x, y
CpuXY == {<<0, 0>>, <<32, 1>>, <<5, 255>>}

\* p: no flag of C, Z, V, N set; all four set; C and D set
CpuP == {36, 231, 45}

InitCpu ==
    /\ overflow_checks \in BOOLEAN
    /\ cycle = 0
    /\ legal = CpuLegalRows
    /\ unofficial = CpuUnofficialRows
    /\ bus = <<>>
    /\ \E pc \in CpuPCs, a \in CpuA, r \in CpuXY, p \in CpuP :
          regs = [RegistersNew EXCEPT !.pc = pc, !.a = a, !.x = r[1], !.y = r[2], !.p = p]
    /\ \E opcode \in CpuOpcodes, w \in CpuOperands :
          mem = MemStore(MemStore(MemStore(BgMem, regs.pc, opcode).m,
                                  (regs.pc + 1) % U16, w % 256).m,
                         (regs.pc + 2) % U16, w \div 256).m
    /\ last = NoOp
    /\ hist = NoHist
    /\ nops = 0

\* what the harness keeps of the step before the last one: its handler, its
\* result and the registers it started from
StepBefore ==
    IF last.op = "step"
    THEN [handler |-> last.handler, st |-> last.st, regs |-> hist.regs]
    ELSE [handler |-> "none", st |-> "none", regs |-> regs]

\* cpu.step(&mut bus); hist keeps the Cpu and the memory the step started
\* from, and the step before it
Step ==
    /\ nops < MaxSteps
    /\ last.st # "panic"
    /\ \E s \in {step([cycle |-> cycle, registers |-> regs], mem, legal, unofficial)} :
           /\ last' = [op |-> "step", st |-> s.r.st, err |-> s.r.e, fetched |-> s.fetched,
                       opcode |-> s.opcode, instr |-> s.instr, handler |-> s.handler]
           /\ IF s.r = Panic
              THEN UNCHANGED <<cycle, regs, mem>>
              ELSE /\ cycle' = s.cpu.cycle
                   /\ regs' = s.cpu.registers
                   /\ mem' = s.m
    /\ hist' = [cycle |-> cycle, regs |-> regs, mem |-> mem, prev |-> StepBefore]
    /\ nops' = nops + 1
    /\ UNCHANGED <<overflow_checks, legal, unofficial, bus>>

NextCpu == Step

SpecCpu == InitCpu /\ [][NextCpu]_vars

\* the Cpu a handler starts from: the step's base cycles charged and PC moved
\* past the instruction
AtDispatch ==
    [cycle |-> hist.cycle + last.instr.cycles,
     registers |-> [hist.regs EXCEPT !.pc = (@ + last.instr.bytes) % U16]]

\* the mnemonic of the descriptor the step returned, without the star of an
\* unofficial opcode
Mnemonic == last.instr.mnemonic[Len(last.instr.mnemonic)]

\* C13: a step whose opcode is in neither instruction table returns the
\* IllegalInstruction error and runs no handler; a step whose opcode is in a
\* table runs one handler, the one named after the mnemonic of the opcode's
\* descriptor, and leaves behind what that handler leaves behind.
C13_Dispatch ==
    (last.op = "step" /\ last.fetched) =>
        IF last.opcode \in Opcodes(legal) \cup Opcodes(unofficial)
        THEN /\ last.handler = to_lowercase(Mnemonic)
             /\ LET h == execute(last.handler, AtDispatch, last.instr, hist.mem)
                IN  h.r # Panic =>
                        /\ last.st = h.r.st
                        /\ cycle = h.cpu.cycle /\ regs = h.cpu.registers /\ mem = h.m
        ELSE /\ last.st = "err" /\ last.err = "IllegalInstruction"
             /\ last.handler = "none"

C13_Witness ==
    /\ last.op = "step" /\ last.fetched
    /\ last.opcode = CpuUnknownOpcode
    /\ last.opcode \notin Opcodes(legal) \cup Opcodes(unofficial)
    /\ last.st = "err" /\ last.err = "IllegalInstruction"
    /\ hist.regs.pc = 765 /\ regs.pc = 766

\* the address the step's addressing mode resolved to, from the registers
\* and the memory the handler started with
Resolved == load_operand(last.instr.addr_mode, AtDispatch.registers, hist.mem)

\* the address the resolved address is compared with
PenaltySource ==
    CASE last.instr.addr_mode = "AbsoluteX" -> (Resolved.v - hist.regs.x + U16) % U16
      [] last.instr.addr_mode \in {"AbsoluteY", "IndirectY"} ->
             (Resolved.v - hist.regs.y + U16) % U16
      [] last.instr.addr_mode = "Relative" -> AtDispatch.registers.pc
      [] OTHER -> Resolved.v

\* the penalty the rule gives the step: 1 when the descriptor is flagged and
\* the two addresses lie in different pages
Penalty ==
    IF last.instr.can_cross_page /\ (PenaltySource \div 256 # Resolved.v \div 256)
    THEN 1 ELSE 0

\* the handlers that fetch their operand once, or charge for it as a fetch does
FetchesOnce ==
    \/ last.handler \in {"adc", "lda", "inc"}
    \/ last.handler = "nop" /\ last.instr.addr_mode = "AbsoluteX"

\* C18: a step whose handler fetches an operand costs its base cycles plus
\* the page-cross penalty: 1 when the descriptor is flagged can_cross_page
\* and the resolved address lies in another page than its source (the
\* resolved address less X for AbsoluteX, less Y for AbsoluteY and
\* IndirectY, the resolved address itself otherwise), 0 otherwise; an
\* unflagged descriptor costs its base cycles wherever the operand lies.
C18_PageCrossPenalty ==
    (last.op = "step" /\ last.fetched /\ FetchesOnce /\ last.st # "panic" /\ IsOk(Resolved)) =>
        /\ cycle = hist.cycle + last.instr.cycles + Penalty
        /\ ~last.instr.can_cross_page => cycle = hist.cycle + last.instr.cycles

\* C18 witness: ADC $02F0,X with X = $20 reads $0310 and costs 4 + 1
C18_Witness ==
    /\ last.op = "step" /\ last.st = "ok" /\ last.handler = "adc"
    /\ last.instr.addr_mode = "AbsoluteX" /\ last.instr.can_cross_page
    /\ hist.regs.x = 32 /\ Resolved = Ok(784) /\ PenaltySource = 752
    /\ cycle = hist.cycle + 5

\* INC $02F0,X with X = $20 crosses the page as well and costs its 7 cycles
C18_WitnessUnflagged ==
    /\ last.op = "step" /\ last.st = "ok" /\ last.handler = "inc"
    /\ ~last.instr.can_cross_page
    /\ hist.regs.x = 32 /\ Resolved = Ok(784)
    /\ cycle = hist.cycle + 7

\* the branch mnemonics: the status bit each tests and the value it branches on
Branches ==
    [bcc |-> <<0, 0>>, bcs |-> <<0, 1>>, bne |-> <<1, 0>>, beq |-> <<1, 1>>,
     bvc |-> <<6, 0>>, bvs |-> <<6, 1>>, bpl |-> <<7, 0>>, bmi |-> <<7, 1>>]

\* PC just past the branch's operand
PastOperand == (hist.regs.pc + 2) % U16

\* does the branch the step ran find its flag in the state it branches on
BranchTaken ==
    (hist.regs.p \div Pow2(Branches[last.handler][1])) % 2 = Branches[last.handler][2]

\* PC just past the operand plus the operand byte as a signed displacement
BranchTarget ==
    (PastOperand + signed8(MemLoad(hist.mem, (hist.regs.pc + 1) % U16).v) + U16) % U16

\* C19: a branch whose condition does not hold costs its base cycles and
\* leaves PC just past its operand; a branch whose condition holds leaves PC
\* at the Relative target and costs its base cycles plus 1, plus 1 more
\* exactly when the target's high byte differs from the high byte of PC
\* just past the operand; no branch changes a flag or another register.
C19_Branches ==
    (last.op = "step" /\ last.fetched /\ last.handler \in DOMAIN Branches
        /\ last.st # "panic") =>
        /\ last.st = "ok"
        /\ regs = [hist.regs EXCEPT !.pc = regs.pc]
        /\ mem = hist.mem
        /\ IF BranchTaken
           THEN /\ regs.pc = BranchTarget
                /\ cycle = hist.cycle + last.instr.cycles + 1
                           + (IF BranchTarget \div 256 # PastOperand \div 256 THEN 1 ELSE 0)
           ELSE /\ regs.pc = PastOperand
                /\ cycle = hist.cycle + last.instr.cycles

\* C19 witness: BNE +1 at $02FD with Z clear goes from $02FF to $0300 and
\* costs 2 + 1 + 1
C19_Witness ==
    /\ last.op = "step" /\ last.st = "ok" /\ last.handler = "bne"
    /\ hist.regs.pc = 765 /\ hist.regs.p = 36
    /\ BranchTaken /\ PastOperand = 767 /\ BranchTarget = 768
    /\ regs.pc = 768 /\ cycle = hist.cycle + 4

\* BEQ at the same place with Z clear is not taken: 2 cycles, PC = $02FF
C19_WitnessNotTaken ==
    /\ last.op = "step" /\ last.st = "ok" /\ last.handler = "beq"
    /\ hist.regs.pc = 765 /\ hist.regs.p = 36
    /\ ~BranchTaken /\ BranchTarget = 768
    /\ regs.pc = 767 /\ cycle = hist.cycle + 2

\* BVS with V set and the target in the page of PC: 2 + 1
C19_WitnessSamePage ==
    /\ last.op = "step" /\ last.st = "ok" /\ last.handler = "bvs" /\ BranchTaken
    /\ BranchTarget \div 256 = PastOperand \div 256 /\ cycle = hist.cycle + 3

\* the operand value M the step's handler worked on: the operand byte itself
\* for Immediate, the byte at the resolved address otherwise
OperandValue ==
    IF last.instr.addr_mode = "Immediate"
    THEN MemLoad(hist.mem, (hist.regs.pc + 1) % U16).v
    ELSE MemLoad(hist.mem, Resolved.v).v

\* A + M + C of the step
AdcSum == hist.regs.a + OperandValue + (hist.regs.p % 2)

\* C20: ADC leaves A = (A + M + C) mod 256, Carry set exactly when
\* A + M + C > 255, Zero exactly when the new A is 0, Negative as bit 7 of
\* the new A, and Overflow exactly when A and M have the same sign and the
\* new A has the other one; the remaining status bits and X, Y, SP are as
\* they were.
C20_Adc ==
    (last.op = "step" /\ last.handler = "adc" /\ last.st = "ok") =>
        LET a1 == AdcSum % 256
            c1 == IF AdcSum > 255 THEN 1 ELSE 0
            z1 == IF a1 = 0 THEN 1 ELSE 0
            n1 == a1 \div 128
            v1 == IF /\ (hist.regs.a < 128) = (OperandValue < 128)
                     /\ (a1 < 128) # (hist.regs.a < 128)
                  THEN 1 ELSE 0
        IN  /\ regs.a = a1
            /\ regs.p = BitAnd(hist.regs.p, 60) + c1 + 2 * z1 + 64 * v1 + 128 * n1
            /\ regs.x = hist.regs.x /\ regs.y = hist.regs.y /\ regs.sp = hist.regs.sp

\* C20 witness: $7F + $01 with carry clear is $80: Overflow and Negative
\* set, Carry and Zero clear
C20_Witness ==
    /\ last.op = "step" /\ last.handler = "adc" /\ last.st = "ok"
    /\ last.instr.addr_mode = "Immediate"
    /\ hist.regs.a = 127 /\ OperandValue = 1 /\ hist.regs.p = 36
    /\ regs.a = 128 /\ regs.p = 228

\* $FF + $00 with carry set is $00: Carry and Zero set, Overflow clear
C20_WitnessCarry ==
    /\ last.op = "step" /\ last.handler = "adc" /\ last.st = "ok"
    /\ hist.regs.a = 255 /\ OperandValue = 0 /\ hist.regs.p = 45
    /\ regs.a = 0 /\ regs.p = 47

\* $80 + $80 is $00 with Carry, Zero and Overflow set
C20_WitnessNegatives ==
    /\ last.op = "step" /\ last.handler = "adc" /\ last.st = "ok"
    /\ hist.regs.a = 128 /\ OperandValue = 128 /\ hist.regs.p = 36
    /\ regs.a = 0 /\ regs.p = 103

----------------------------------------------------------------------------
(* The arithmetic and the undocumented read-modify-write instructions: one *)
(* instruction is stored at PC with its operand in page zero, in page 2 or *)
(* behind a page-zero pointer, and Cpu::step runs.                         *)

\* rows of 6502ops.csv: subtraction, addition and the compares
AluLegalRows ==
    <<[opcode |-> 233, mnemonic |-> "SBC", mode |-> "IMM", bytes |-> 2, cycles |-> 2, cross |-> FALSE],
      [opcode |-> 229, mnemonic |-> "SBC", mode |-> "ZP", bytes |-> 2, cycles |-> 3, cross |-> FALSE],
      [opcode |-> 253, mnemonic |-> "SBC", mode |-> "ABSX", bytes |-> 3, cycles |-> 4, cross |-> TRUE],
      [opcode |-> 225, mnemonic |-> "SBC", mode |-> "INDX", bytes |-> 2, cycles |-> 6, cross |-> FALSE],
      [opcode |-> 105, mnemonic |-> "ADC", mode |-> "IMM", bytes |-> 2, cycles |-> 2, cross |-> FALSE],
      [opcode |-> 121, mnemonic |-> "ADC", mode |-> "ABSY", bytes |-> 3, cycles |-> 4, cross |-> TRUE],
      [opcode |-> 201, mnemonic |-> "CMP", mode |-> "IMM", bytes |-> 2, cycles |-> 2, cross |-> FALSE],
      [opcode |-> 221, mnemonic |-> "CMP", mode |-> "ABSX", bytes |-> 3, cycles |-> 4, cross |-> TRUE],
      [opcode |-> 224, mnemonic |-> "CPX", mode |-> "IMM", bytes |-> 2, cycles |-> 2, cross |-> FALSE],
      [opcode |-> 228, mnemonic |-> "CPX", mode |-> "ZP", bytes |-> 2, cycles |-> 3, cross |-> FALSE],
      [opcode |-> 192, mnemonic |-> "CPY", mode |-> "IMM", bytes |-> 2, cycles |-> 2, cross |-> FALSE],
      [opcode |-> 204, mnemonic |-> "CPY", mode |-> "ABS", bytes |-> 3, cycles |-> 4, cross |-> FALSE]>>

\* rows of unofficial.csv: the read-modify-write composites and LAX
AluUnofficialRows ==
    <<[opcode |-> 199, mnemonic |-> "DCP", mode |-> "ZP", bytes |-> 2, cycles |-> 5, cross |-> FALSE],
      [opcode |-> 223, mnemonic |-> "DCP", mode |-> "ABSX", bytes |-> 3, cycles |-> 7, cross |-> FALSE],
      [opcode |-> 195, mnemonic |-> "DCP", mode |-> "INDX", bytes |-> 2, cycles |-> 8, cross |-> FALSE],
      [opcode |-> 231, mnemonic |-> "ISC", mode |-> "ZP", bytes |-> 2, cycles |-> 5, cross |-> FALSE],
      [opcode |-> 251, mnemonic |-> "ISC", mode |-> "ABSY", bytes |-> 3, cycles |-> 7, cross |-> FALSE],
      [opcode |-> 7, mnemonic |-> "SLO", mode |-> "ZP", bytes |-> 2, cycles |-> 5, cross |-> FALSE],
      [opcode |-> 31, mnemonic |-> "SLO", mode |-> "ABSX", bytes |-> 3, cycles |-> 7, cross |-> TRUE],
      [opcode |-> 39, mnemonic |-> "RLA", mode |-> "ZP", bytes |-> 2, cycles |-> 5, cross |-> FALSE],
      [opcode |-> 51, mnemonic |-> "RLA", mode |-> "INDY", bytes |-> 2, cycles |-> 8, cross |-> FALSE],
      [opcode |-> 103, mnemonic |-> "RRA", mode |-> "ZP", bytes |-> 2, cycles |-> 5, cross |-> FALSE],
      [opcode |-> 127, mnemonic |-> "RRA", mode |-> "ABSX", bytes |-> 3, cycles |-> 7, cross |-> FALSE],
      [opcode |-> 71, mnemonic |-> "SRE", mode |-> "ZP", bytes |-> 2, cycles |-> 5, cross |-> FALSE],
      [opcode |-> 79, mnemonic |-> "SRE", mode |-> "ABS", bytes |-> 3, cycles |-> 6, cross |-> FALSE],
      [opcode |-> 167, mnemonic |-> "LAX", mode |-> "ZP", bytes |-> 2, cycles |-> 3, cross |-> FALSE],
      [opcode |-> 191, mnemonic |-> "LAX", mode |-> "ABSY", bytes |-> 3, cycles |-> 4, cross |-> TRUE]>>

\* where the instruction sits
AluPC == 512

\* the two bytes after the opcode, as a little-endian word: $0010 and $02F0
AluOperands == {16, 752}

\* x = y: no index, and an index that carries $02F0 into the next page
AluIndex == {0, 32}

\* a
AluA == {0, 16, 127, 128, 255}

\* p: carry clear, carry set, Decimal set, every flag set but Break and Zero
AluP == {36, 37, 44, 237}

\* the byte the operand cells hold
AluData == {0, 1, 16, 127, 128, 255}

\* the cells that hold the data byte: the operands with and without the
\* index, as page-zero and as absolute addresses
AluCells == {16, 48, 240, 752, 784}

\* memory with the instruction at pc and d in every operand cell; a pointer
\* read from page zero is d, or d + 256 * d where its high byte is a cell too
AluMem(opcode, w, d) ==
    LET cells == [ram |-> [i \in {c \in AluCells : d # 0} |-> d]]
        prog == (AluPC :> opcode) @@ ((AluPC + 1) :> (w % 256)) @@ ((AluPC + 2) :> (w \div 256))
    IN  [MemoryNew EXCEPT !.ram = [i \in {c \in DOMAIN prog : prog[c] # 0} |-> prog[i]]
                                      @@ cells.ram]

InitAlu ==
    /\ overflow_checks \in BOOLEAN
    /\ cycle = 0
    /\ legal = AluLegalRows
    /\ unofficial = AluUnofficialRows
    /\ bus = <<>>
    /\ \E a \in AluA, i \in AluIndex, p \in AluP :
          regs = [RegistersNew EXCEPT !.pc = AluPC, !.a = a, !.x = i, !.y = i, !.p = p]
    /\ \E opcode \in Opcodes(AluLegalRows) \cup Opcodes(AluUnofficialRows),
          w \in AluOperands, d \in AluData :
          mem = AluMem(opcode, w, d)
    /\ last = NoOp
    /\ hist = NoHist
    /\ nops = 0

NextAlu == Step

SpecAlu == InitAlu /\ [][NextAlu]_vars

\* A - M - (1 - C) of the step
SbcDifference == hist.regs.a - OperandValue - (1 - (hist.regs.p % 2))

\* C21: SBC leaves A = (A - M - (1 - C)) mod 256, Carry set exactly when
\* A - M - (1 - C) >= 0 (no borrow), Zero exactly when the new A is 0,
\* Negative as bit 7 of the new A, and Overflow exactly when A and M differ
\* in sign and the new A differs in sign from A; the remaining status bits
\* and X, Y, SP are as they were.
C21_Sbc ==
    (last.op = "step" /\ last.handler = "sbc" /\ last.st = "ok") =>
        LET a1 == (SbcDifference + 256) % 256
            c1 == IF SbcDifference >= 0 THEN 1 ELSE 0
            z1 == IF a1 = 0 THEN 1 ELSE 0
            n1 == a1 \div 128
            v1 == IF /\ (hist.regs.a < 128) # (OperandValue < 128)
                     /\ (a1 < 128) # (hist.regs.a < 128)
                  THEN 1 ELSE 0
        IN  /\ regs.a = a1
            /\ regs.p = BitAnd(hist.regs.p, 60) + c1 + 2 * z1 + 64 * v1 + 128 * n1
            /\ regs.x = hist.regs.x /\ regs.y = hist.regs.y /\ regs.sp = hist.regs.sp

\* C21 witness: $80 - $01 with carry set is $7F: Overflow and Carry set,
\* Negative and Zero clear
C21_Witness ==
    /\ last.op = "step" /\ last.handler = "sbc" /\ last.st = "ok"
    /\ last.instr.addr_mode = "ZeroPage"
    /\ hist.regs.a = 128 /\ OperandValue = 1 /\ hist.regs.p = 37
    /\ regs.a = 127 /\ regs.p = 101

\* $00 - $00 with carry clear borrows: $FF, Negative set, Carry clear
C21_WitnessBorrow ==
    /\ last.op = "step" /\ last.handler = "sbc" /\ last.st = "ok"
    /\ hist.regs.a = 0 /\ OperandValue = 0 /\ hist.regs.p = 36
    /\ regs.a = 255 /\ regs.p = 164

\* $10 - $10 with carry set is $00: Zero and Carry set
C21_WitnessZero ==
    /\ last.op = "step" /\ last.handler = "sbc" /\ last.st = "ok"
    /\ hist.regs.a = 16 /\ OperandValue = 16 /\ hist.regs.p = 37
    /\ regs.a = 0 /\ regs.p = 39

\* the handlers that add to or subtract from the accumulator
Arithmetic == {"adc", "sbc", "rra", "isc"}

\* the step run again from the state that differs only in the Decimal flag
DecimalTwin ==
    step([cycle |-> hist.cycle, registers |-> [hist.regs EXCEPT !.p = BitXor(@, 8)]],
         hist.mem, legal, unofficial)

\* C22: the Decimal flag never alters arithmetic. A step of ADC, SBC, RRA or
\* ISC and the same step from the state that differs only in the Decimal
\* flag end with the same result, accumulator, Carry, Zero, Overflow and
\* Negative flags (every register and status bit but Decimal), memory and
\* cycle count, and each leaves the Decimal flag as it found it.
C22_DecimalIgnored ==
    (last.op = "step" /\ last.handler \in Arithmetic /\ last.st # "panic") =>
        /\ DecimalTwin.r.st = last.st
        /\ DecimalTwin.handler = last.handler
        /\ DecimalTwin.cpu.registers = [regs EXCEPT !.p = BitXor(@, 8)]
        /\ DecimalTwin.m = mem
        /\ DecimalTwin.cpu.cycle = cycle
        /\ BitAnd(regs.p, 8) = BitAnd(hist.regs.p, 8)

\* C22 witness: ADC #$10 with A = $7F and Decimal set gives the binary sum
\* $8F, as it does with Decimal clear
C22_Witness ==
    /\ last.op = "step" /\ last.handler = "adc" /\ last.st = "ok"
    /\ hist.regs.a = 127 /\ OperandValue = 16 /\ hist.regs.p = 44
    /\ regs.a = 143 /\ BitAnd(regs.p, 8) = 8
    /\ DecimalTwin.cpu.registers.a = 143 /\ BitAnd(DecimalTwin.cpu.registers.p, 8) = 0

\* SBC with Decimal set
C22_WitnessSbc ==
    /\ last.op = "step" /\ last.handler = "sbc" /\ last.st = "ok"
    /\ hist.regs.a = 16 /\ OperandValue = 1 /\ hist.regs.p = 44
    /\ regs.a = 14 /\ BitAnd(regs.p, 8) = 8

\* RRA and ISC with Decimal set
C22_WitnessComposites ==
    /\ last.op = "step" /\ last.handler \in {"rra", "isc"} /\ last.st = "ok"
    /\ BitAnd(hist.regs.p, 8) = 8 /\ regs.a # hist.regs.a /\ mem # hist.mem

\* the register each compare handler compares with the operand
Compared == [cmp |-> hist.regs.a, cpx |-> hist.regs.x, cpy |-> hist.regs.y]

\* C23: CMP, CPX and CPY with register value R (A, X or Y) and operand M
\* leave Carry set exactly when R >= M, Zero exactly when R = M and Negative
\* as bit 7 of (R - M) mod 256; A, X, Y, SP, the Overflow flag with the other
\* status bits, and memory are as they were.
C23_Compare ==
    (last.op = "step" /\ last.handler \in DOMAIN Compared /\ last.st = "ok") =>
        LET R == Compared[last.handler]
            M == OperandValue
            c1 == IF R >= M THEN 1 ELSE 0
            z1 == IF R = M THEN 1 ELSE 0
            n1 == ((R - M + 256) % 256) \div 128
        IN  /\ regs.p = BitAnd(hist.regs.p, 124) + c1 + 2 * z1 + 128 * n1
            /\ regs.a = hist.regs.a /\ regs.x = hist.regs.x /\ regs.y = hist.regs.y
            /\ regs.sp = hist.regs.sp
            /\ mem = hist.mem

\* C23 witness: CMP with A = $10 and M = $7F borrows: Carry and Zero clear,
\* Negative set from $91, Overflow as it was
C23_Witness ==
    /\ last.op = "step" /\ last.handler = "cmp" /\ last.st = "ok"
    /\ hist.regs.a = 16 /\ OperandValue = 127 /\ hist.regs.p = 237
    /\ regs.p = 236

\* CPX with X = M: Carry and Zero set, Negative clear
C23_WitnessEqual ==
    /\ last.op = "step" /\ last.handler = "cpx" /\ last.st = "ok"
    /\ hist.regs.x = 0 /\ OperandValue = 0 /\ hist.regs.p = 36
    /\ regs.p = 39

\* CMP with A = $FF and M = $01: Carry set, Negative set from $FE
C23_WitnessGreater ==
    /\ last.op = "step" /\ last.handler = "cmp" /\ last.st = "ok"
    /\ hist.regs.a = 255 /\ OperandValue = 1 /\ BitAnd(regs.p, 131) = 129

\* CPY with Y = $20 and M = $10 read from memory: Carry alone set
C23_WitnessCpy ==
    /\ last.op = "step" /\ last.handler = "cpy" /\ last.st = "ok"
    /\ last.instr.addr_mode = "Absolute"
    /\ hist.regs.y = 32 /\ OperandValue = 16 /\ BitAnd(regs.p, 131) = 1

\* the undocumented read-modify-write handlers and the two documented
\* handlers each is made of
Composite ==
    [dcp |-> <<"dec", "cmp">>, isc |-> <<"inc", "sbc">>, slo |-> <<"asl", "ora">>,
     rla |-> <<"rol", "and">>, rra |-> <<"ror", "adc">>, sre |-> <<"lsr", "eor">>]

\* what the first constituent leaves, run on the step's descriptor from the
\* state the step dispatched from
FirstDone == execute(Composite[last.handler][1], AtDispatch, last.instr, hist.mem)

\* what the second constituent leaves, run from what the first left
BothDone == execute(Composite[last.handler][2], FirstDone.cpu, last.instr, FirstDone.m)

\* the address the second constituent resolves
SecondResolved == load_operand(last.instr.addr_mode, FirstDone.cpu.registers, FirstDone.m)

\* C24: an undocumented read-modify-write step (DCP, ISC, SLO, RLA, RRA,
\* SRE) ends with the registers, memory and cycle count its two documented
\* constituents (DEC;CMP, INC;SBC, ASL;ORA, ROL;AND, ROR;ADC, LSR;EOR) leave
\* when run one after the other; both work on the same resolved operand, the
\* second reading the byte and the carry the first wrote, and the page-cross
\* penalty is charged once per constituent. LAX leaves A = X = the loaded
\* byte with Zero and Negative set from it.
C24_Composites ==
    /\ (last.op = "step" /\ last.handler \in DOMAIN Composite /\ last.st = "ok") =>
           /\ regs = BothDone.cpu.registers
           /\ mem = BothDone.m
           /\ cycle = BothDone.cpu.cycle
           /\ cycle = hist.cycle + last.instr.cycles + 2 * Penalty
           /\ SecondResolved = Resolved
           /\ MemLoad(mem, Resolved.v) = MemLoad(FirstDone.m, Resolved.v)
    /\ (last.op = "step" /\ last.handler = "lax" /\ last.st = "ok") =>
           /\ regs.a = OperandValue /\ regs.x = OperandValue
           /\ regs.p = BitAnd(hist.regs.p, 125)
                           + (IF OperandValue = 0 THEN 2 ELSE 0)
                           + 128 * (OperandValue \div 128)
           /\ regs.y = hist.regs.y /\ regs.sp = hist.regs.sp /\ mem = hist.mem
           /\ cycle = hist.cycle + last.instr.cycles + Penalty

----------------------------------------------------------------------------
(* Interrupts, reset and the cycle counter: a program with its vectors and *)
(* a stack is loaded, and the Cpu is stepped, interrupted, reset and moved *)
(* with Cpu::jsr in any order.                                             *)

\* rows of 6502ops.csv
SysLegalRows ==
    <<[opcode |-> 0, mnemonic |-> "BRK", mode |-> "IMP", bytes |-> 1, cycles |-> 7, cross |-> FALSE],
      [opcode |-> 64, mnemonic |-> "RTI", mode |-> "IMP", bytes |-> 1, cycles |-> 6, cross |-> FALSE],
      [opcode |-> 32, mnemonic |-> "JSR", mode |-> "ABS", bytes |-> 3, cycles |-> 6, cross |-> FALSE],
      [opcode |-> 234, mnemonic |-> "NOP", mode |-> "IMP", bytes |-> 1, cycles |-> 2, cross |-> FALSE],
      [opcode |-> 189, mnemonic |-> "LDA", mode |-> "ABSX", bytes |-> 3, cycles |-> 4, cross |-> TRUE]>>

\* the opcodes stored at PC: the rows' and one no table holds
SysOpcodes == {0, 64, 32, 234, 189, CpuUnknownOpcode}

\* where the program sits: in RAM, and on the IRQ vector so that PC is
\* 0xFFFF when BRK is dispatched
SysPCs == {512, 65534}

\* the stack pointer: room for an interrupt frame above and below, one byte
\* short of a frame to pop, an empty stack, and room for two pushes only
SysSPs == {252, 253, 255, 2}

\* the status register: InterruptDisable set, clear, and clear with Break,
\* Negative, Overflow, Zero and Carry set
SysP == {36, 32, 243}

\* the status byte waiting on the stack
SysStacked == {0, 255}

\* the handlers of the three vectors
SysNmiHandler == 768
SysResetHandler == 512
SysIrqHandler == 784

\* addresses Cpu::jsr is called with
SysJsrAddrs == {SysNmiHandler, 65535}

\* the bytes of a little-endian word at addr
WordAt(addr, w) == (addr :> (w % 256)) @@ ((addr + 1) :> (w \div 256))

\* as a sparse array
Sparse(f) == [i \in {c \in DOMAIN f : f[c] # 0} |-> f[i]]

\* memory: the three vectors, an RTI at the NMI and IRQ handlers, a frame
\* of status sb and return address $0234 at the top of the stack, and the
\* instruction at pc with the operand $02F0
SysMem(pc, opcode, sb) ==
    LET rom == WordAt(ADDR_NMI - MEM_PROG_ROM_BEGIN, SysNmiHandler)
                   @@ WordAt(ADDR_RESET - MEM_PROG_ROM_BEGIN, SysResetHandler)
                   @@ WordAt(ADDR_IRQ - MEM_PROG_ROM_BEGIN, SysIrqHandler)
        ram == (SysNmiHandler :> 64) @@ (SysIrqHandler :> 64)
                   @@ (509 :> sb) @@ (510 :> 52) @@ (511 :> 2)
        background == [MemoryNew EXCEPT !.ram = Sparse(ram), !.rom_prog = Sparse(rom)]
    IN  MemStore(MemStore(MemStore(background, pc, opcode).m, (pc + 1) % U16, 240).m,
                 (pc + 2) % U16, 2).m

InitSys ==
    /\ overflow_checks \in BOOLEAN
    /\ cycle = 0
    /\ legal = SysLegalRows
    /\ unofficial = <<>>
    /\ bus = <<>>
    /\ \E pc \in SysPCs, sp \in SysSPs, p \in SysP :
          regs = [pc |-> pc, sp |-> sp, a |-> 17, x |-> 34, y |-> 51, p |-> p]
    /\ \E opcode \in SysOpcodes, sb \in SysStacked : mem = SysMem(regs.pc, opcode, sb)
    /\ last = NoOp
    /\ hist = NoHist
    /\ nops = 0

\* cpu.interrupt(bus, t)
Interrupt(t) ==
    /\ nops < MaxSteps
    /\ last.st # "panic"
    /\ \E h \in {interrupt([cycle |-> cycle, registers |-> regs], mem, t)} :
           /\ last' = [op |-> "interrupt", t |-> t, st |-> h.r.st, err |-> h.r.e]
           /\ IF h.r = Panic
              THEN UNCHANGED <<cycle, regs, mem>>
              ELSE /\ cycle' = h.cpu.cycle
                   /\ regs' = h.cpu.registers
                   /\ mem' = h.m
    /\ hist' = [cycle |-> cycle, regs |-> regs, mem |-> mem]
    /\ nops' = nops + 1
    /\ UNCHANGED <<overflow_checks, legal, unofficial, bus>>

\* cpu.reset(bus)
Reset ==
    /\ nops < MaxSteps
    /\ last.st # "panic"
    /\ \E h \in {reset([cycle |-> cycle, registers |-> regs], mem)} :
           /\ last' = [op |-> "reset", st |-> h.r.st, err |-> h.r.e]
           /\ cycle' = h.cpu.cycle
           /\ regs' = h.cpu.registers
           /\ mem' = h.m
    /\ hist' = [cycle |-> cycle, regs |-> regs, mem |-> mem]
    /\ nops' = nops + 1
    /\ UNCHANGED <<overflow_checks, legal, unofficial, bus>>

\* cpu.jsr(addr)
Jsr(addr) ==
    /\ nops < MaxSteps
    /\ last.st # "panic"
    /\ \E j \in {jsr([cycle |-> cycle, registers |-> regs], addr, legal, unofficial)} :
           /\ last' = [op |-> "jsr", addr |-> addr, st |-> j.r.st, err |-> j.r.e,
                       instr |-> j.instr]
           /\ cycle' = j.cpu.cycle
           /\ regs' = j.cpu.registers
    /\ hist' = [cycle |-> cycle, regs |-> regs, mem |-> mem]
    /\ nops' = nops + 1
    /\ UNCHANGED <<overflow_checks, legal, unofficial, bus, mem>>

NextSys ==
    \/ Step
    \/ \E t \in InterruptTypes : Interrupt(t)
    \/ Reset
    \/ \E addr \in SysJsrAddrs : Jsr(addr)

SpecSys == InitSys /\ [][NextSys]_vars

\* was InterruptDisable set when the call started
DisabledBefore == BitAnd(hist.regs.p, 4) # 0

\* the call was an interrupt that Cpu::interrupt did not turn away: a BRK
\* step, or cpu.interrupt with anything but an IRQ under InterruptDisable
Entered ==
    \/ last.op = "step" /\ last.fetched /\ last.handler = "brk"
    \/ last.op = "interrupt" /\ ~(last.t = "IRQ" /\ DisabledBefore)

\* the kind of the interrupt
Kind == IF last.op = "step" THEN "BRK" ELSE last.t

\* PC when Cpu::interrupt started: a BRK step has moved it past the opcode
EntryPC == IF last.op = "step" THEN AtDispatch.registers.pc ELSE hist.regs.pc

\* the cycle count when Cpu::interrupt started
EntryCycle == IF last.op = "step" THEN AtDispatch.cycle ELSE hist.cycle

\* the vector of the interrupt
Vector == IF Kind = "NMI" THEN ADDR_NMI ELSE ADDR_IRQ

\* C25: an IRQ raised while InterruptDisable is set returns Ok and leaves
\* PC, SP, A, X, Y, the status, the cycle counter and memory as they were;
\* BRK and NMI are serviced whether InterruptDisable is set or clear: with
\* room for three bytes on the stack they return Ok, take three bytes of
\* stack and continue at their vector.
C25_IrqMasked ==
    /\ (last.op = "interrupt" /\ last.t = "IRQ" /\ DisabledBefore) =>
           /\ last.st = "ok"
           /\ regs = hist.regs /\ cycle = hist.cycle /\ mem = hist.mem
    /\ (Entered /\ Kind \in {"BRK", "NMI"} /\ hist.regs.sp >= 3 /\ last.st # "panic") =>
           /\ last.st = "ok"
           /\ regs.sp = hist.regs.sp - 3
           /\ regs.pc = MemLoad16(mem, Vector).v

\* C25 witness: an IRQ with InterruptDisable set, after a step has run
C25_Witness ==
    /\ last.op = "interrupt" /\ last.t = "IRQ" /\ DisabledBefore /\ last.st = "ok"
    /\ hist.cycle > 0 /\ regs = hist.regs /\ hist.regs.sp >= 3

\* an NMI and a BRK serviced with InterruptDisable set
C25_WitnessNmi ==
    /\ last.op = "interrupt" /\ last.t = "NMI" /\ DisabledBefore /\ last.st = "ok"
    /\ regs.pc = SysNmiHandler /\ regs.sp = hist.regs.sp - 3

C25_WitnessBrk ==
    /\ last.op = "step" /\ last.handler = "brk" /\ DisabledBefore /\ last.st = "ok"
    /\ regs.pc = SysIrqHandler /\ regs.sp = hist.regs.sp - 3

\* an IRQ with InterruptDisable clear is serviced
C25_WitnessIrqServiced ==
    /\ last.op = "interrupt" /\ last.t = "IRQ" /\ ~DisabledBefore /\ last.st = "ok"
    /\ regs.pc = SysIrqHandler /\ regs.sp = hist.regs.sp - 3

\* the return address a serviced interrupt pushes
ReturnAddress == IF Kind = "BRK" THEN (EntryPC + 1) % U16 ELSE EntryPC

\* the status byte a serviced interrupt pushes: the status before, with the
\* Break bit set for BRK and clear otherwise
PushedStatus == BitAnd(hist.regs.p, 239) + (IF Kind = "BRK" THEN 16 ELSE 0)

\* C26: a serviced interrupt leaves the high byte of the return address (PC,
\* or PC + 1 for BRK) at the old top of the stack, the low byte below it and
\* the status byte below that, with its Break bit set exactly for BRK and its
\* InterruptDisable bit as it was before the interrupt; SP is 3 lower,
\* InterruptDisable is set, and PC is the little-endian word at 0xFFFA for
\* NMI and at 0xFFFE for BRK and IRQ; nothing else in memory changes.
C26_InterruptSequence ==
    (Entered /\ last.st = "ok") =>
        LET top == MEM_STACK_BEGIN + hist.regs.sp
        IN  /\ mem = [hist.mem EXCEPT !.ram =
                         ArrSet(ArrSet(ArrSet(@, top, ReturnAddress \div 256),
                                       top - 1, ReturnAddress % 256),
                                top - 2, PushedStatus)]
            /\ BitAnd(ArrGet(mem.ram, top - 2), 16) = (IF Kind = "BRK" THEN 16 ELSE 0)
            /\ BitAnd(ArrGet(mem.ram, top - 2), 4) = BitAnd(hist.regs.p, 4)
            /\ regs.sp = hist.regs.sp - 3
            /\ regs.p = BitOr(PushedStatus, 4)
            /\ Vector = (IF Kind = "NMI" THEN 65530 ELSE 65534)
            /\ regs.pc = ArrGet(hist.mem.rom_prog, Vector - MEM_PROG_ROM_BEGIN)
                             + 256 * ArrGet(hist.mem.rom_prog, Vector + 1 - MEM_PROG_ROM_BEGIN)
            /\ regs.a = hist.regs.a /\ regs.x = hist.regs.x /\ regs.y = hist.regs.y
            /\ cycle = EntryCycle

\* C26 witness: BRK at $0200 with SP = $FD and status $20 pushes $02, $02,
\* $30 and continues at the IRQ handler with InterruptDisable set
C26_Witness ==
    /\ last.op = "step" /\ last.handler = "brk" /\ last.st = "ok"
    /\ hist.regs.pc = 512 /\ hist.regs.sp = 253 /\ hist.regs.p = 32
    /\ ArrGet(mem.ram, 509) = 2 /\ ArrGet(mem.ram, 508) = 2 /\ ArrGet(mem.ram, 507) = 48
    /\ regs.sp = 250 /\ regs.p = 52 /\ regs.pc = SysIrqHandler

\* an NMI at $0200 with status $F3 pushes $02, $00, $E3 and continues at the
\* NMI handler
C26_WitnessNmi ==
    /\ last.op = "interrupt" /\ last.t = "NMI" /\ last.st = "ok"
    /\ hist.regs.pc = 512 /\ hist.regs.sp = 253 /\ hist.regs.p = 243
    /\ ArrGet(mem.ram, 509) = 2 /\ ArrGet(mem.ram, 508) = 0 /\ ArrGet(mem.ram, 507) = 227
    /\ regs.sp = 250 /\ regs.p = 231 /\ regs.pc = SysNmiHandler

\* a serviced IRQ
C26_WitnessIrq ==
    /\ last.op = "interrupt" /\ last.t = "IRQ" /\ last.st = "ok" /\ ~DisabledBefore
    /\ regs.pc = SysIrqHandler /\ BitAnd(regs.p, 20) = 4

\* C27: RTI pops the status byte, then the low and the high byte of the
\* return address: afterwards status bits 4 and 5 are as they were before
\* the RTI, the other six status bits are those of the popped byte, PC is
\* the popped address itself, SP is 3 higher, and A, X, Y and memory are as
\* they were.
C27_Rti ==
    (last.op = "step" /\ last.fetched /\ last.handler = "rti" /\ last.st = "ok") =>
        LET top == MEM_STACK_BEGIN + hist.regs.sp
            popped == ArrGet(hist.mem.ram, top + 1)
        IN  /\ regs.p = BitAnd(popped, 207) + BitAnd(hist.regs.p, 48)
            /\ regs.pc = ArrGet(hist.mem.ram, top + 2) + 256 * ArrGet(hist.mem.ram, top + 3)
            /\ regs.sp = hist.regs.sp + 3
            /\ regs.a = hist.regs.a /\ regs.x = hist.regs.x /\ regs.y = hist.regs.y
            /\ mem = hist.mem
            /\ cycle = hist.cycle + last.instr.cycles

\* C27 witness: RTI with SP = $FC, status $24 and the frame $FF, $34, $02
\* leaves status $EF, PC = $0234 and SP = $FF
C27_Witness ==
    /\ last.op = "step" /\ last.handler = "rti" /\ last.st = "ok"
    /\ hist.regs.sp = 252 /\ hist.regs.p = 36
    /\ ArrGet(hist.mem.ram, 509) = 255
    /\ regs.p = 239 /\ regs.pc = 564 /\ regs.sp = 255

\* RTI with status $F3 and the frame $00, $34, $02 leaves status $30
C27_WitnessKeepsSet ==
    /\ last.op = "step" /\ last.handler = "rti" /\ last.st = "ok"
    /\ hist.regs.p = 243 /\ ArrGet(hist.mem.ram, MEM_STACK_BEGIN + hist.regs.sp + 1) = 0
    /\ regs.p = 48 /\ regs.pc = 564

\* RTI in the handler a BRK entered returns to the byte after BRK's padding
\* byte with the status BRK pushed
C27_WitnessAfterBrk ==
    /\ last.op = "step" /\ last.handler = "rti" /\ last.st = "ok"
    /\ hist.regs.pc = SysIrqHandler /\ hist.regs.sp = 250
    /\ regs.pc = 514 /\ regs.sp = 253

\* C28: Cpu::reset leaves cycle = 0, A = X = Y = 0, SP = 0xFD, status = 0x24
\* and PC = the little-endian word at 0xFFFC, and memory as it was.
C28_Reset ==
    (last.op = "reset" /\ last.st = "ok") =>
        /\ cycle = 0
        /\ regs = [pc |-> ArrGet(hist.mem.rom_prog, 65532 - MEM_PROG_ROM_BEGIN)
                              + 256 * ArrGet(hist.mem.rom_prog, 65533 - MEM_PROG_ROM_BEGIN),
                   sp |-> 253, a |-> 0, x |-> 0, y |-> 0, p |-> 36]
        /\ mem = hist.mem

\* C28 witness: a reset after a BRK has been serviced: the counter, the
\* registers and the stack pointer had all moved
C28_Witness ==
    /\ last.op = "reset" /\ last.st = "ok"
    /\ hist.cycle = 7 /\ hist.regs.a = 17 /\ hist.regs.sp = 250 /\ hist.regs.p = 52
    /\ hist.regs.pc = SysIrqHandler
    /\ cycle = 0 /\ regs.pc = SysResetHandler /\ regs.sp = 253 /\ regs.p = 36 /\ regs.a = 0
    /\ ArrGet(mem.ram, 507) = 48

\* C29: the cycle counter never decreases across a step or a jsr call,
\* whether the call succeeds or fails; a successful step adds at least the
\* base cycles of the descriptor it executed, a jsr call the base cycles of
\* opcode 0x20; the counter goes down only when reset sets it to 0.
C29_CycleMonotonic ==
    /\ last.op \in {"step", "jsr", "interrupt"} => cycle >= hist.cycle
    /\ (last.op = "step" /\ last.st = "ok") => cycle >= hist.cycle + last.instr.cycles
    /\ (last.op = "jsr") => cycle = hist.cycle + lookup(legal, unofficial, 32).cycles
    /\ (last.op # "none" /\ cycle < hist.cycle) => (last.op = "reset" /\ cycle = 0)

\* C29 witness: a jsr call after a step: 7 + 6 cycles
C29_Witness ==
    /\ last.op = "jsr" /\ hist.cycle = 7 /\ cycle = 13 /\ regs.pc = last.addr

\* a step that fails after its cycles were charged: RTI on an empty stack
C29_WitnessFailing ==
    /\ last.op = "step" /\ last.st = "err" /\ last.handler = "rti"
    /\ cycle = hist.cycle + 6 /\ hist.cycle > 0

\* a step with a page-cross cycle on top of its base cycles
C29_WitnessPenalty ==
    /\ last.op = "step" /\ last.st = "ok" /\ last.handler = "lda"
    /\ cycle = hist.cycle + last.instr.cycles + 1

\* reset takes the counter back to 0
C29_WitnessReset ==
    /\ last.op = "reset" /\ hist.cycle > 0 /\ cycle = 0

----------------------------------------------------------------------------
(* The biased bit set: a bit set is biased, stored to and set bit by bit   *)
(* in any order, and read after every call. regs holds the bit set, hist   *)
(* the value each bit was last biased to.                                  *)

\* how many calls a run makes
MaxBitOps == 3

\* no bit biased: -1 stands for never biased
NoBias == [b \in 0..7 |-> -1]

\* the bit sets a run starts from: a fresh one, and PPUCTRL as
\* Registers::new builds it
BitSetStarts ==
    {[bs |-> BiasedDefault, bias |-> NoBias],
     [bs |-> PpuRegistersNew.ppuctrl, bias |-> [NoBias EXCEPT ![6] = 0]]}

\* the bits biased and set
BitPositions == {0, 3, 5, 6}

\* the bytes stored
BitBytes == {0, 217, 255}

InitBits ==
    /\ overflow_checks = FALSE
    /\ cycle = 0
    /\ legal = <<>>
    /\ unofficial = <<>>
    /\ mem = MemoryNew
    /\ bus = <<>>
    /\ \E s \in BitSetStarts : regs = s.bs /\ hist = [bias |-> s.bias]
    /\ last = NoOp
    /\ nops = 0

\* bs.bias(bit, v)
Bias(bit, v) ==
    /\ nops < MaxBitOps
    /\ regs' = biased_bias(regs, bit, v)
    /\ hist' = [bias |-> [hist.bias EXCEPT ![bit] = v % 2]]
    /\ last' = [op |-> "bias", bit |-> bit, val |-> v]
    /\ nops' = nops + 1
    /\ UNCHANGED <<overflow_checks, cycle, legal, unofficial, mem, bus>>

\* bs.store(v)
BitStore(v) ==
    /\ nops < MaxBitOps
    /\ regs' = biased_store(regs, v)
    /\ last' = [op |-> "store", bit |-> 0, val |-> v]
    /\ nops' = nops + 1
    /\ UNCHANGED <<overflow_checks, cycle, legal, unofficial, mem, bus, hist>>

\* bs.set(idx, val)
BitSetBit(idx, val) ==
    /\ nops < MaxBitOps
    /\ regs' = biased_set(regs, idx, val)
    /\ last' = [op |-> "set", bit |-> idx, val |-> val]
    /\ nops' = nops + 1
    /\ UNCHANGED <<overflow_checks, cycle, legal, unofficial, mem, bus, hist>>

NextBits ==
    \/ \E bit \in BitPositions, v \in {0, 1, 2} : Bias(bit, v)
    \/ \E v \in BitBytes : BitStore(v)
    \/ \E idx \in BitPositions, val \in {0, 1, 3} : BitSetBit(idx, val)

SpecBits == InitBits /\ [][NextBits]_vars

\* bit b of a byte
BitOf(x, b) == (x \div Pow2(b)) % 2

\* bs.get(b), as 0 or 1
ReadBit(b) == IF bit_get(regs.v, b) THEN 1 ELSE 0

\* C30: a bit that has been biased reads as the value it was biased to,
\* after the bias call itself (which rewrites a bit stored before) and after
\* every later store and set call; a store gives every bit that was never
\* biased the bit of the stored byte.
C30_BiasedBits ==
    /\ \A b \in 0..7 : hist.bias[b] # -1 => ReadBit(b) = hist.bias[b]
    /\ last.op = "store" =>
           \A b \in 0..7 : hist.bias[b] = -1 => ReadBit(b) = BitOf(last.val, b)
----------------------------------------------------------------------------
(* Tables that define an opcode more than once: each table is any sequence *)
(* of rows that share opcode 0xBD, and the Cpu steps on that opcode.       *)

\* rows the legal table is drawn from
DupLegalRows ==
    {[opcode |-> 189, mnemonic |-> "LDA", mode |-> "ABSX", bytes |-> 3, cycles |-> 4,
      cross |-> TRUE],
     [opcode |-> 189, mnemonic |-> "NOP", mode |-> "IMP", bytes |-> 1, cycles |-> 2,
      cross |-> FALSE]}

\* rows the unofficial table is drawn from
DupUnofficialRows ==
    {[opcode |-> 189, mnemonic |-> "LAX", mode |-> "ABSY", bytes |-> 3, cycles |-> 4,
      cross |-> TRUE],
     [opcode |-> 189, mnemonic |-> "NOP", mode |-> "ABSX", bytes |-> 3, cycles |-> 5,
      cross |-> FALSE]}

\* x, y
DupXY == {<<0, 0>>, <<1, 2>>}

InitDup ==
    /\ overflow_checks = FALSE
    /\ cycle = 0
    /\ legal \in SeqsUpTo(DupLegalRows, MaxRows)
    /\ unofficial \in SeqsUpTo(DupUnofficialRows, MaxRows)
    /\ bus = <<>>
    /\ \E r \in DupXY :
          regs = [RegistersNew EXCEPT !.pc = 512, !.x = r[1], !.y = r[2]]
    /\ mem = MemStore(MemStore(MemStore(MemStore(MemStore(MemStore(MemStore(BgMem,
                 512, 189).m, 513, 240).m, 514, 2).m, 752, 17).m, 753, 34).m, 754, 51).m,
                 515, 189).m
    /\ last = NoOp
    /\ hist = NoHist
    /\ nops = 0

NextDup == Step

SpecDup == InitDup /\ [][NextDup]_vars

\* the rows in the order build.rs emits their arms, each with its table
EmittedRows ==
    [i \in 1..Len(legal) |-> [row |-> legal[i], is_legal |-> TRUE]]
        \o [i \in 1..Len(unofficial) |-> [row |-> unofficial[i], is_legal |-> FALSE]]

\* the positions of the rows that define the opcode the step fetched
Defining == {i \in 1..Len(EmittedRows) : EmittedRows[i].row.opcode = last.opcode}

\* the step looked up and dispatched by row i
UsesRow(i) ==
    /\ last.instr = csv_to_instr(EmittedRows[i].row, EmittedRows[i].is_legal).instr
    /\ last.handler = to_lowercase(EmittedRows[i].row.mnemonic)

\* C31 as stated: when several rows define the opcode, the descriptor and
\* the handler of a step come from the row written last.
C31_LastWriterWins ==
    (last.op = "step" /\ last.fetched /\ Defining # {}) =>
        \E i \in Defining : UsesRow(i) /\ \A j \in Defining : j <= i

\* C31 amended: when several rows define the opcode, the descriptor and the
\* handler of a step come from the row written first, so a legal row
\* shadows every unofficial row of the same opcode.
C31_FirstWriterWins ==
    (last.op = "step" /\ last.fetched /\ Defining # {}) =>
        \E i \in Defining : UsesRow(i) /\ \A j \in Defining : i <= j

\* C31 witness: a one-byte NOP row is written before the LDA and LAX rows of
\* opcode 0xBD; the step is that NOP and moves PC by one
C31_Witness ==
    /\ last.op = "step" /\ last.fetched /\ last.opcode = 189
    /\ Len(legal) = 2 /\ Len(unofficial) = 2
    /\ legal[2].mnemonic = "LDA" /\ legal[1].mnemonic = "NOP" /\ legal[1].mode = "IMP"
    /\ unofficial[2].mnemonic = "LAX"
    /\ last.handler = "nop" /\ last.instr.bytes = 1 /\ regs.pc = 513

\* C31 witness: only the unofficial table defines the opcode, twice; the
\* first of its rows is used
C31_WitnessUnofficial ==
    /\ last.op = "step" /\ last.fetched /\ last.opcode = 189
    /\ Len(legal) = 0 /\ Len(unofficial) = 2
    /\ unofficial[1].mnemonic = "LAX" /\ unofficial[2].mnemonic = "NOP"
    /\ last.handler = "lax" /\ last.instr.mnemonic = <<"*", "LAX">>
    /\ hist.regs.y = 2 /\ regs.a = 51 /\ regs.x = 51
----------------------------------------------------------------------------
(* nes/cartridge.rs: the 16-byte header of a .nes file                     *)

\* Cartridge::CARTRIDGE_HEADER
CARTRIDGE_HEADER == <<78, 69, 83, 26>>

\* Cartridge::cartridge_header_check; header[i + 1] is byte i of the slice
cartridge_header_check(header) ==
    IF SubSeq(header, 1, Len(CARTRIDGE_HEADER)) # CARTRIDGE_HEADER
    THEN Err("CartridgeError")
    ELSE Ok(0)

\* Cartridge::from_header
from_header(header) ==
    IF ~IsOk(cartridge_header_check(header)) THEN cartridge_header_check(header)
    ELSE IF BitAnd(header[8], 14) # 0 \/ BitAnd(header[10], 254) # 0
    THEN Err("CartridgeError")
    ELSE LET has_4s == BitAnd(header[7], 8) # 0
             has_vert == BitAnd(header[7], 1) # 0
             low == BitAnd(header[7], 240) \div 16
             mapper == BitAnd(BitAnd(low, header[8]), 240)
         IN  IF mapper # 0 THEN Err("CartridgeError")
             ELSE Ok([num_prog_rom |-> header[5],
                      num_ppu_vrom |-> header[6],
                      num_ram |-> header[9],
                      mirror |-> IF has_4s THEN "FourScreen"
                                 ELSE IF has_vert THEN "Vertical" ELSE "Horizontal",
                      has_battery |-> BitAnd(header[7], 2) > 0,
                      has_trainer |-> BitAnd(header[7], 4) > 0,
                      mapper |-> mapper,
                      region |-> IF BitAnd(header[10], 1) = 1 THEN "PAL" ELSE "NTSC"])

(* Headers are parsed one after another.                                   *)

\* the first four bytes: the magic, and the magic with its last byte wrong
CartMagics == {CARTRIDGE_HEADER, <<78, 69, 83, 0>>}

\* byte 6: flags in the low nibble, the mapper's low nibble above them
CartByte6 == {0, 1, 9, 16, 48, 240, 255}

\* byte 7: VS bit, reserved bits 1-3, the mapper's high nibble
CartByte7 == {0, 1, 2, 8, 16, 240}

\* byte 9: PAL bit, reserved bits 1-7
CartByte9 == {0, 1, 2, 128}

\* a header with the given magic and bytes 6, 7 and 9; one 16kB and one 8kB
\* bank, the reserved tail zero
CartHeader(magic, b6, b7, b9) ==
    magic \o <<1, 1, b6, b7, 0, b9, 0, 0, 0, 0, 0, 0>>

InitCart ==
    /\ overflow_checks = FALSE
    /\ cycle = 0
    /\ legal = <<>>
    /\ unofficial = <<>>
    /\ mem = MemoryNew
    /\ bus = <<>>
    /\ regs = RegistersNew
    /\ last = NoOp
    /\ hist = NoHist
    /\ nops = 0

\* Cartridge::from_header(&header)
FromHeader(header) ==
    /\ last' = [op |-> "from_header", header |-> header, st |-> from_header(header).st,
                err |-> from_header(header).e, c |-> from_header(header).v]
    /\ UNCHANGED <<overflow_checks, cycle, legal, unofficial, mem, bus, regs, hist, nops>>

NextCart ==
    \E magic \in CartMagics, b6 \in CartByte6, b7 \in CartByte7, b9 \in CartByte9 :
        FromHeader(CartHeader(magic, b6, b7, b9))

SpecCart == InitCart /\ [][NextCart]_vars

\* the mapper id of the header last parsed: low nibble from bits 4-7 of
\* byte 6, high nibble from bits 4-7 of byte 7
MapperId == (last.header[7] \div 16) + 16 * (last.header[8] \div 16)

\* the header last parsed has the magic bytes and zero reserved bits
WellFormed ==
    /\ SubSeq(last.header, 1, 4) = <<78, 69, 83, 26>>
    /\ (last.header[8] \div 2) % 8 = 0
    /\ last.header[10] \div 2 = 0

\* C32: from_header returns CartridgeError for every header whose mapper id
\* is not 0, whose magic bytes are wrong or whose reserved bits in byte 7
\* (bits 1-3) or byte 9 (bits 1-7) are not zero; a header is accepted only
\* with mapper id 0.
C32_HeaderRejected ==
    last.op = "from_header" =>
        /\ (MapperId # 0 \/ ~WellFormed) => (last.st = "err" /\ last.err = "CartridgeError")
        /\ last.st = "ok" => MapperId = 0
----------------------------------------------------------------------------
\* C33: a step that returns an error leaves A, X, Y, SP, the status flags
\* and all memory as they were before the step; only PC and the cycle
\* counter may have advanced.
C33_ErrorAtomicity ==
    (last.op = "step" /\ last.st = "err") =>
        /\ regs.a = hist.regs.a /\ regs.x = hist.regs.x /\ regs.y = hist.regs.y
        /\ regs.sp = hist.regs.sp
        /\ regs.p = hist.regs.p
        /\ mem = hist.mem
----------------------------------------------------------------------------
(* The PPU register block accessed as a device, as its tests do: loads,    *)
(* stores and set_vblank in any order. regs holds the block, hist the      *)
(* block before the last access, the access before it and whether the      *)
(* status was read before it.                                              *)

\* how many accesses a run makes
MaxPpuOps == 3

\* the blocks a run starts from: Registers::new(), and the block of
\* test_bus_ppustatus (latch 0x5A, status 0xF0)
PpuStarts ==
    {PpuRegistersNew,
     [PpuRegistersNew EXCEPT !.latch = 90, !.ppustatus = biased_store(@, 240)]}

\* the addresses accessed: the eight registers and the address after them
PpuAddrs == PPUCTRL_ADDR..(PPUDATA_ADDR + 1)

\* the bytes stored
PpuBytes == {0, 91, 255}

InitPpu ==
    /\ overflow_checks = FALSE
    /\ cycle = 0
    /\ legal = <<>>
    /\ unofficial = <<>>
    /\ mem = MemoryNew
    /\ bus = <<>>
    /\ regs \in PpuStarts
    /\ last = NoOp
    /\ hist = [d |-> regs, prev |-> NoOp, status_read |-> FALSE]
    /\ nops = 0

\* what the harness remembers of an access
PpuHist ==
    [d |-> regs,
     prev |-> last,
     status_read |-> hist.status_read
                        \/ (last.op = "ppu_load" /\ last.addr = PPUSTATUS_ADDR)]

\* r.load(addr)
PpuLoadOp(addr) ==
    /\ nops < MaxPpuOps
    /\ \E x \in {PpuLoad(regs, addr)} :
           /\ regs' = x.d
           /\ last' = [NoOp EXCEPT !.op = "ppu_load", !.addr = addr, !.st = x.r.st,
                                   !.out = x.r.v, !.err = x.r.e]
    /\ hist' = PpuHist
    /\ nops' = nops + 1
    /\ UNCHANGED <<overflow_checks, cycle, legal, unofficial, mem, bus>>

\* r.store(addr, data)
PpuStoreOp(addr, data) ==
    /\ nops < MaxPpuOps
    /\ \E x \in {PpuStore(regs, addr, data)} :
           /\ regs' = x.d
           /\ last' = [NoOp EXCEPT !.op = "ppu_store", !.addr = addr, !.val = data,
                                   !.st = x.r.st, !.err = x.r.e]
    /\ hist' = PpuHist
    /\ nops' = nops + 1
    /\ UNCHANGED <<overflow_checks, cycle, legal, unofficial, mem, bus>>

\* r.set_vblank(is_enabled)
SetVblank(is_enabled) ==
    /\ nops < MaxPpuOps
    /\ regs' = set_vblank(regs, is_enabled)
    /\ last' = [NoOp EXCEPT !.op = "set_vblank", !.st = "ok"]
    /\ hist' = PpuHist
    /\ nops' = nops + 1
    /\ UNCHANGED <<overflow_checks, cycle, legal, unofficial, mem, bus>>

NextPpu ==
    \/ \E addr \in PpuAddrs : PpuLoadOp(addr)
    \/ \E addr \in PpuAddrs, data \in PpuBytes : PpuStoreOp(addr, data)
    \/ \E is_enabled \in BOOLEAN : SetVblank(is_enabled)

SpecPpu == InitPpu /\ [][NextPpu]_vars

\* the last access read the status register
StatusRead == last.op = "ppu_load" /\ last.addr = PPUSTATUS_ADDR

\* C35: a read of the PPU status register returns bits 5-7 of the stored
\* status with the low five bits of the latch, and clears bit 7 of the
\* stored status, so a status read that follows another returns bit 7 = 0;
\* every successful load and every store leaves the byte transferred in the
\* latch.
C35_StatusRead ==
    /\ StatusRead =>
          /\ last.st = "ok"
          /\ last.out = 32 * (hist.d.ppustatus.v \div 32) + (hist.d.latch % 32)
          /\ regs.ppustatus.v = hist.d.ppustatus.v % 128
          /\ hist.status_read => last.out < 128
    /\ (last.op = "ppu_load" /\ last.st = "ok") => regs.latch = last.out
    /\ last.op = "ppu_store" => regs.latch = last.val

\* C35 witness: the two reads of test_bus_ppustatus, 0xFA then 0x7A
C35_Witness ==
    /\ StatusRead /\ hist.status_read /\ nops = 2
    /\ hist.d.latch = 250 /\ hist.d.ppustatus.v = 96
    /\ last.out = 122 /\ regs.latch = 122

\* C35 witness: the first status read returns bit 7 and clears it
C35_WitnessFirstRead ==
    /\ StatusRead /\ ~hist.status_read
    /\ hist.d.ppustatus.v = 224 /\ last.out = 250 /\ regs.ppustatus.v = 96

\* C35 witness: a store that fails still leaves its byte in the latch, a
\* load that fails leaves the latch alone
C35_WitnessFailing ==
    /\ last.op = "ppu_load" /\ last.st = "err" /\ regs.latch = 91
    /\ hist.d.latch = 91 /\ nops = 2
----------------------------------------------------------------------------
\* the last access was a load or a store of PPUDATA
DataAccess == last.op \in {"ppu_load", "ppu_store"} /\ last.addr = PPUDATA_ADDR

\* the last access was a write to PPUADDR
AddrWrite == last.op = "ppu_store" /\ last.addr = PPUADDR_ADDR

\* C36: a write of d to PPUADDR sets ppuaddr to ((ppuaddr << 8) | d) mod
\* 2^16, so two writes h then l leave h * 256 + l; a load or a store of
\* PPUDATA advances ppuaddr by 1 when bit 2 of PPUCTRL is 0 and by 32 when it
\* is 1; ppuaddr is always in 0..0xFFFF.
C36_PpuAddr ==
    /\ AddrWrite =>
          /\ regs.ppuaddr = (hist.d.ppuaddr * 256 + last.val) % U16
          /\ (hist.prev.op = "ppu_store" /\ hist.prev.addr = PPUADDR_ADDR) =>
                regs.ppuaddr = hist.prev.val * 256 + last.val
    /\ DataAccess =>
          regs.ppuaddr - hist.d.ppuaddr =
              IF (hist.d.ppuctrl.v \div 4) % 2 = 1 THEN 32 ELSE 1
    /\ regs.ppuaddr \in 0..(U16 - 1)
----------------------------------------------------------------------------
(* Subroutines and the stack instructions: a two-instruction program is    *)
(* loaded (the second instruction sits where the first one leads: after    *)
(* it, at the JSR target and at the interrupt handlers), and the Cpu is    *)
(* stepped, interrupted and reset in any order.                            *)

\* rows of 6502ops.csv
SubLegalRows ==
    <<[opcode |-> 32, mnemonic |-> "JSR", mode |-> "ABS", bytes |-> 3, cycles |-> 6, cross |-> FALSE],
      [opcode |-> 96, mnemonic |-> "RTS", mode |-> "IMP", bytes |-> 1, cycles |-> 6, cross |-> FALSE],
      [opcode |-> 0, mnemonic |-> "BRK", mode |-> "IMP", bytes |-> 1, cycles |-> 7, cross |-> FALSE],
      [opcode |-> 64, mnemonic |-> "RTI", mode |-> "IMP", bytes |-> 1, cycles |-> 6, cross |-> FALSE],
      [opcode |-> 8, mnemonic |-> "PHP", mode |-> "IMP", bytes |-> 1, cycles |-> 3, cross |-> FALSE],
      [opcode |-> 40, mnemonic |-> "PLP", mode |-> "IMP", bytes |-> 1, cycles |-> 4, cross |-> FALSE],
      [opcode |-> 72, mnemonic |-> "PHA", mode |-> "IMP", bytes |-> 1, cycles |-> 3, cross |-> FALSE],
      [opcode |-> 104, mnemonic |-> "PLA", mode |-> "IMP", bytes |-> 1, cycles |-> 4, cross |-> FALSE],
      [opcode |-> 154, mnemonic |-> "TXS", mode |-> "IMP", bytes |-> 1, cycles |-> 2, cross |-> FALSE],
      [opcode |-> 234, mnemonic |-> "NOP", mode |-> "IMP", bytes |-> 1, cycles |-> 2, cross |-> FALSE]>>

\* the second instruction: RTS, RTI, PLP, PLA
SubSecond == {96, 64, 40, 104}

\* where the first instruction sits: in RAM, and (JSR only) with its last
\* byte at the top of the address space
SubPCs == {512, 65533}

\* the JSR target
SubTarget == 752

\* the stack pointer: a frame of three bytes above it, of two, an empty
\* stack, and room for one and for two pushes
SubSPs == {252, 253, 255, 1, 2}

\* x, which TXS copies into the stack pointer
SubX == {0, 255}

\* memory: the three vectors, the second instruction at the JSR target, at
\* the handlers and after a one-byte first instruction, three bytes (sb,
\* 0x34, 0x02) at the top of the stack, and the first instruction at pc
SubMem(pc, first, second, sb) ==
    LET rom == WordAt(ADDR_NMI - MEM_PROG_ROM_BEGIN, SysNmiHandler)
                   @@ WordAt(ADDR_RESET - MEM_PROG_ROM_BEGIN, SysResetHandler)
                   @@ WordAt(ADDR_IRQ - MEM_PROG_ROM_BEGIN, SysIrqHandler)
        ram == (SubTarget :> second) @@ (SysNmiHandler :> second) @@ (SysIrqHandler :> second)
                   @@ (509 :> sb) @@ (510 :> 52) @@ (511 :> 2)
        background == [MemoryNew EXCEPT !.ram = Sparse(ram), !.rom_prog = Sparse(rom)]
        placed == MemStore(background, pc, first).m
    IN  IF first = 32
        THEN MemStore(MemStore(placed, (pc + 1) % U16, SubTarget % 256).m,
                      (pc + 2) % U16, SubTarget \div 256).m
        ELSE MemStore(placed, (pc + 1) % U16, second).m

InitSub ==
    /\ overflow_checks \in BOOLEAN
    /\ cycle = 0
    /\ legal = SubLegalRows
    /\ unofficial = <<>>
    /\ bus = <<>>
    /\ \E pc \in SubPCs, first \in Opcodes(SubLegalRows), second \in SubSecond,
          sp \in SubSPs, x \in SubX, p \in SysP, sb \in SysStacked :
          /\ pc = 65533 => first = 32
          /\ regs = [pc |-> pc, sp |-> sp, a |-> 192, x |-> x, y |-> 51, p |-> p]
          /\ mem = SubMem(pc, first, second, sb)
    /\ last = NoOp
    /\ hist = NoHist
    /\ nops = 0

NextSub ==
    \/ Step
    \/ \E t \in InterruptTypes : Interrupt(t)
    \/ Reset

SpecSub == InitSub /\ [][NextSub]_vars

\* the last step ran the named handler without panicking
Ran(handler) == last.op = "step" /\ last.handler = handler /\ last.st # "panic"

\* the byte memory held at addr before the last step
ByteBefore(addr) == MemLoad(hist.mem, addr % U16).v

\* the last step left A, X, Y and the status register alone
KeepsAXYP ==
    /\ regs.a = hist.regs.a /\ regs.x = hist.regs.x /\ regs.y = hist.regs.y
    /\ regs.p = hist.regs.p

\* C37: a JSR at address p pushes p + 2, high byte first, and jumps to its
\* operand; an RTS that follows it returns to p + 3 (modulo 2^16) with the
\* stack pointer the JSR started from; neither changes A, X, Y or a flag.
C37_JsrRts ==
    /\ (Ran("jsr") /\ last.st = "ok") =>
          /\ ArrGet(mem.ram, MEM_STACK_BEGIN + hist.regs.sp) =
                ((hist.regs.pc + 2) % U16) \div 256
          /\ ArrGet(mem.ram, MEM_STACK_BEGIN + hist.regs.sp - 1) =
                ((hist.regs.pc + 2) % U16) % 256
          /\ regs.sp = hist.regs.sp - 2
          /\ regs.pc = ByteBefore(hist.regs.pc + 1) + 256 * ByteBefore(hist.regs.pc + 2)
    /\ (Ran("rts") /\ last.st = "ok") =>
          /\ regs.pc = (ByteBefore(MEM_STACK_BEGIN + hist.regs.sp + 1)
                           + 256 * ByteBefore(MEM_STACK_BEGIN + hist.regs.sp + 2) + 1) % U16
          /\ regs.sp = hist.regs.sp + 2
          /\ mem = hist.mem
          /\ (hist.prev.handler = "jsr" /\ hist.prev.st = "ok") =>
                /\ regs.pc = (hist.prev.regs.pc + 3) % U16
                /\ regs.sp = hist.prev.regs.sp
                /\ regs.a = hist.prev.regs.a /\ regs.x = hist.prev.regs.x
                /\ regs.y = hist.prev.regs.y /\ regs.p = hist.prev.regs.p
    /\ (Ran("jsr") \/ Ran("rts")) => KeepsAXYP

\* C37 witness: JSR $02F0 at 0x0200 with SP = 0xFD, then the RTS at 0x02F0:
\* back at 0x0203 with SP = 0xFD and 0x02, 0x02 left in the stack page
C37_Witness ==
    /\ Ran("rts") /\ last.st = "ok"
    /\ hist.prev.handler = "jsr" /\ hist.prev.st = "ok"
    /\ hist.prev.regs.pc = 512 /\ hist.prev.regs.sp = 253
    /\ hist.regs.pc = SubTarget /\ hist.regs.sp = 251
    /\ regs.pc = 515 /\ regs.sp = 253
    /\ ArrGet(mem.ram, 509) = 2 /\ ArrGet(mem.ram, 508) = 2

\* C37 witness: the JSR ends at 0xFFFF, the address pushed; the RTS wraps
\* to 0x0000
C37_WitnessWrap ==
    /\ Ran("rts") /\ last.st = "ok"
    /\ hist.prev.handler = "jsr" /\ hist.prev.st = "ok" /\ hist.prev.regs.pc = 65533
    /\ ~overflow_checks
    /\ regs.pc = 0 /\ regs.sp = hist.prev.regs.sp

\* the flags other than Break and the unused bit
SixFlags(p) == BitAnd(p, 207)

\* C38: after a BRK and the RTI that follows it, the stack pointer is the
\* one the BRK started from, PC is the address after the BRK plus one
\* (modulo 2^16), and Carry, Zero, InterruptDisable, Decimal, Overflow and
\* Negative are what they were before the BRK.
C38_BrkRti ==
    (/\ Ran("rti") /\ last.st = "ok"
     /\ hist.prev.handler = "brk" /\ hist.prev.st = "ok") =>
        /\ regs.sp = hist.prev.regs.sp
        /\ regs.pc = (hist.prev.regs.pc + 1 + 1) % U16
        /\ SixFlags(regs.p) = SixFlags(hist.prev.regs.p)

\* C38 witness: BRK at 0x0200 with InterruptDisable clear; the handler runs
\* with it set, and the RTI at 0x0310 returns to 0x0202 with it clear
C38_Witness ==
    /\ Ran("rti") /\ last.st = "ok"
    /\ hist.prev.handler = "brk" /\ hist.prev.st = "ok"
    /\ hist.prev.regs.pc = 512 /\ hist.prev.regs.sp = 253 /\ hist.prev.regs.p = 243
    /\ hist.regs.pc = SysIrqHandler /\ hist.regs.sp = 250 /\ hist.regs.p = 247
    /\ regs.pc = 514 /\ regs.sp = 253 /\ regs.p = 243

\* C38 witness: InterruptDisable was set before the BRK and is set after the
\* RTI; Break, which the six flags leave out, stays set
C38_WitnessDisabled ==
    /\ Ran("rti") /\ last.st = "ok"
    /\ hist.prev.handler = "brk" /\ hist.prev.st = "ok"
    /\ hist.prev.regs.p = 36 /\ regs.p = 52 /\ regs.sp = hist.prev.regs.sp

\* C39: bit 5 of the status register is 1 in every state, whatever PLP or
\* RTI pop, and a PHP that succeeds pushes the status with bits 4 and 5 set.
C39_UnusedBit ==
    /\ BitOf(regs.p, 5) = 1
    /\ (Ran("php") /\ last.st = "ok") =>
          /\ ArrGet(mem.ram, MEM_STACK_BEGIN + hist.regs.sp) = BitOr(hist.regs.p, 48)
          /\ BitOf(ArrGet(mem.ram, MEM_STACK_BEGIN + hist.regs.sp), 4) = 1
          /\ BitOf(ArrGet(mem.ram, MEM_STACK_BEGIN + hist.regs.sp), 5) = 1

\* C39 witness: a PLP popped the byte 0, whose bit 5 is clear, and bit 5 of
\* the status register is still set
C39_Witness ==
    /\ Ran("plp") /\ last.st = "ok"
    /\ ByteBefore(MEM_STACK_BEGIN + regs.sp) = 0
    /\ BitOf(regs.p, 5) = 1 /\ SixFlags(regs.p) = 0

\* C39 witness: an RTI popped a status byte whose bit 5 is clear
C39_WitnessRti ==
    /\ Ran("rti") /\ last.st = "ok"
    /\ ByteBefore(MEM_STACK_BEGIN + hist.regs.sp + 1) = 0
    /\ BitOf(regs.p, 5) = 1

\* C39 witness: a PHP ran with Break clear and pushed 0x34
C39_WitnessPhp ==
    /\ Ran("php") /\ last.st = "ok"
    /\ hist.regs.p = 36
    /\ ArrGet(mem.ram, MEM_STACK_BEGIN + hist.regs.sp) = 52

----------------------------------------------------------------------------
(* The stack-pointer specification: the four stack helpers of Memory and   *)
(* TXS applied in any order to one Memory and one register file. Memory    *)
(* starts zeroed and every byte pushed is non-zero, so a cell that is not  *)
(* zero has been written.                                                  *)

\* how many operations a run applies
MaxSpOps == 4

\* stack pointers a run starts from
SpStarts == {0, 1, 2, 253, 254, 255}

\* bytes pushed
SpVals == {90, 165}

\* addresses pushed; both bytes of each are non-zero
SpAddrs == {4660, 65535}

\* values of X that TXS copies
SpX == {0, 1, 128, 255}

InitSp ==
    /\ overflow_checks \in BOOLEAN
    /\ cycle = 0
    /\ legal = <<>>
    /\ unofficial = <<>>
    /\ mem = MemoryNew
    /\ bus = <<>>
    /\ \E s \in SpStarts : regs = [RegistersNew EXCEPT !.sp = s]
    /\ hist = [sp |-> regs.sp, mem |-> mem]
    /\ last = NoOp
    /\ nops = 0

\* what the harness does with the outcome of a stack helper
SpApply(op, val, r) ==
    /\ mem' = r.m
    /\ regs' = [regs EXCEPT !.sp = r.sp]
    /\ last' = [NoOp EXCEPT !.op = op, !.val = val, !.st = r.r.st, !.out = r.r.v,
                            !.err = r.r.e]
    /\ hist' = [sp |-> regs.sp, mem |-> mem]
    /\ nops' = nops + 1
    /\ UNCHANGED <<overflow_checks, cycle, legal, unofficial, bus>>

\* mem.stack_push(&mut sp, v)
SpPush(v) ==
    /\ nops < MaxSpOps
    /\ \E r \in {stack_push(mem, regs.sp, v)} : SpApply("push", v, r)

\* mem.stack_pop(&mut sp)
SpPop ==
    /\ nops < MaxSpOps
    /\ \E r \in {stack_pop(mem, regs.sp)} : SpApply("pop", 0, r)

\* mem.stack_push_addr(&mut sp, addr)
SpPushAddr(addr) ==
    /\ nops < MaxSpOps
    /\ \E r \in {stack_push_addr(mem, regs.sp, addr)} : SpApply("push_addr", addr, r)

\* mem.stack_pop_addr(&mut sp)
SpPopAddr ==
    /\ nops < MaxSpOps
    /\ \E r \in {stack_pop_addr(mem, regs.sp)} : SpApply("pop_addr", 0, r)

\* TXS (opcode 0x9A) with x in X
SpTxs(x) ==
    /\ nops < MaxSpOps
    /\ \E h \in {txs_execute([cycle |-> cycle, registers |-> [regs EXCEPT !.x = x]],
                             lookup(SubLegalRows, <<>>, 154), mem)} :
           /\ mem' = h.m
           /\ regs' = h.cpu.registers
           /\ last' = [NoOp EXCEPT !.op = "txs", !.val = x, !.st = h.r.st, !.err = h.r.e]
    /\ hist' = [sp |-> regs.sp, mem |-> mem]
    /\ nops' = nops + 1
    /\ UNCHANGED <<overflow_checks, cycle, legal, unofficial, bus>>

NextSp ==
    \/ \E v \in SpVals : SpPush(v)
    \/ SpPop
    \/ \E addr \in SpAddrs : SpPushAddr(addr)
    \/ SpPopAddr
    \/ \E x \in SpX : SpTxs(x)

SpecSp == InitSp /\ [][NextSp]_vars

\* the cells of the stack page a push can write
StackCells == (MEM_STACK_BEGIN + 1)..MEM_STACK_END

\* C40: whatever stack_push, stack_pop, stack_push_addr, stack_pop_addr and
\* TXS have done, failing or not, the stack pointer is in 0..0xFF; a push
\* writes at 0x0100 + SP and then decrements; a pop increments and then reads
\* at 0x0100 + SP; every cell written is in 0x0101..0x01FF, so 0x0100 is
\* never written; and a push with 255 bytes on the stack (SP = 0) fails and
\* writes nothing.
C40_StackPointerRange ==
    /\ regs.sp \in 0..255
    /\ (last.op = "push" /\ last.st = "ok") =>
          /\ mem.ram = ArrSet(hist.mem.ram, MEM_STACK_BEGIN + hist.sp, last.val)
          /\ regs.sp = hist.sp - 1
    /\ (last.op = "pop" /\ last.st = "ok") =>
          /\ regs.sp = hist.sp + 1
          /\ last.out = ArrGet(mem.ram, MEM_STACK_BEGIN + regs.sp)
          /\ mem = hist.mem
    /\ (last.op = "push_addr" /\ last.st = "ok") =>
          /\ mem.ram = ArrSet(ArrSet(hist.mem.ram, MEM_STACK_BEGIN + hist.sp,
                                     last.val \div 256),
                              MEM_STACK_BEGIN + hist.sp - 1, last.val % 256)
          /\ regs.sp = hist.sp - 2
    /\ (last.op = "pop_addr" /\ last.st = "ok") =>
          /\ regs.sp = hist.sp + 2
          /\ last.out = ArrGet(mem.ram, MEM_STACK_BEGIN + hist.sp + 1)
                          + 256 * ArrGet(mem.ram, MEM_STACK_BEGIN + regs.sp)
          /\ mem = hist.mem
    /\ (last.op = "txs") => (regs.sp = last.val /\ mem = hist.mem)
    /\ DOMAIN mem.ram \subseteq StackCells
    /\ mem = [MemoryNew EXCEPT !.ram = mem.ram]
    /\ (last.op \in {"push", "push_addr"} /\ hist.sp = 0) =>
          /\ last.st = "err" /\ last.err = "Stack Overflow"
          /\ regs.sp = 0 /\ mem = hist.mem

\* C40 witness: a push at SP = 1 wrote 0x0101, the lowest cell, and left
\* SP = 0 with 0x0100 still zero
C40_Witness ==
    /\ last.op = "push" /\ last.st = "ok" /\ hist.sp = 1 /\ regs.sp = 0
    /\ ArrGet(mem.ram, MEM_STACK_BEGIN + 1) = last.val
    /\ ArrGet(mem.ram, MEM_STACK_BEGIN) = 0

\* C40 witness: stack_push_addr at SP = 1 pushed the high byte, failed on
\* the low byte and left SP = 0
C40_WitnessFailing ==
    /\ last.op = "push_addr" /\ last.st = "err" /\ hist.sp = 1 /\ regs.sp = 0
    /\ ArrGet(mem.ram, MEM_STACK_BEGIN + 1) = last.val \div 256

\* C40 witness: stack_pop_addr at SP = 0xFE popped one byte, failed on the
\* second and left SP = 0xFF
C40_WitnessUnderflow ==
    /\ last.op = "pop_addr" /\ last.st = "err" /\ hist.sp = 254 /\ regs.sp = 255

\* C40 witness: TXS moved the pointer to 0xFF and a later push wrote 0x01FF
C40_WitnessTxs ==
    /\ last.op = "push" /\ last.st = "ok" /\ hist.sp = 255
    /\ hist.mem.ram # ZeroArr /\ nops = 3

====
